---- MODULE Spec2Model ----
(***************************************************************************)
(* A model of the page-object layer of wei-y/pageobj: the element cache    *)
(* (pageobject/cache.py), the field descriptors PageElement, PageElements, *)
(* PageElementTemplate, PageElementsTemplate and PageElementDict           *)
(* (pageobject/pageobject.py), the default value adapter                   *)
(* (_get_element / _set_element and its two earlier variants), the tables  *)
(* (PageTable and its two earlier variants), the waits of a page or        *)
(* component (pageobject/wait.py) and the class decorators pageconfig and  *)
(* nextpage (pageobject/decorators.py).                                    *)
(*                                                                         *)
(* The browser driver is the environment.  Its state is the identity of    *)
(* the current root <html> element, the status of every element handle     *)
(* and the serialized markup (hash) of the component context.              *)
(***************************************************************************)
EXTENDS Integers, Sequences, FiniteSets, TLC

VARIABLES
    htmlId,       \* driver: _id of the <html> element of the current document
    dom,          \* driver: dom[h] = status of the element behind handle h
    kind,         \* driver: tag/type of the controls on the page
    comp,         \* driver: the component context: its markup hash, attached or not
    dictDom,      \* driver: the dictionary container and the key element of each item
    pageCache,    \* page.enable_cache (class attribute of the page)
    field,        \* the descriptor under test (its class and configuration)
    instance,     \* the context the descriptor is accessed on: page or component
    table,        \* the cells of the table under test: table[h][attr], row by row
    decl,         \* the class declarations: strategies of a field, _timeout of the classes
    content,      \* driver: value, text and selected option of the element that is read
    inflight,     \* the call in progress: a with block between its enter and its exit
    cache,        \* page.cache: a PageElementCache, or NoCache (None)
    sinceReset,   \* history: keys written since the cache last saw a new root
    op,           \* history: the last handler call, its inputs and its outcome
    prev          \* history: the write or call before op, where two in a row are compared

driver == <<htmlId, dom, kind, comp, dictDom>>
config == <<pageCache, field, instance, table, decl, content, inflight>>
vars == <<driver, config, cache, sinceReset, op, prev>>

-----------------------------------------------------------------------------
(* Bounds of the model *)

NumElems == 2       \* element handles the driver can hand out
MaxRoot == 2        \* distinct root identities (documents, frames, windows)
MaxHash == 2        \* distinct markups of the component context

Handles == 1..NumElems
RootIds == 1..MaxRoot
Hashes == 1..MaxHash

\* hash of a page context: "None if isinstance(instance, PageObject)"
NoneHash == 0
\* context_id of a page context (None) and of the component context (its _id)
PageCtx == "None"
CompCtx == "comp"
ContextIds == {PageCtx, CompCtx}

-----------------------------------------------------------------------------
(* Small helpers on sequences *)

Range(s) == {s[i] : i \in DOMAIN s}

RECURSIVE Flatten(_)
Flatten(ss) == IF ss = <<>> THEN <<>> ELSE Head(ss) \o Flatten(Tail(ss))

-----------------------------------------------------------------------------
(* The driver: element status *)

\* is_enabled() / is_displayed() raise StaleElementReferenceException on a
\* handle whose element left the DOM
Attached(d, h) == d[h].attached
Enabled(d, h) == d[h].enabled
Displayed(d, h) == d[h].displayed

LiveElem == [attached |-> TRUE, enabled |-> TRUE, displayed |-> TRUE, selected |-> FALSE]
\* a detached handle answers no probe: its other fields are never read
GoneElem == [attached |-> FALSE, enabled |-> FALSE, displayed |-> FALSE, selected |-> FALSE]

-----------------------------------------------------------------------------
(* cache.py: the data a cache entry holds.  PageElement stores one handle,  *)
(* PageElements a list, PageElementDict a dict whose values are lists (or,  *)
(* for callers of the cache that store them so, single handles).  A dict is *)
(* kept as the sequence of its items in insertion order.                    *)

One(h) == [shape |-> "one", hs |-> <<h>>, items |-> <<>>]
List(s) == [shape |-> "list", hs |-> s, items |-> <<>>]
Dict(its) == [shape |-> "dict", hs |-> <<>>, items |-> its]
Item(k, single, s) == [key |-> k, single |-> single, hs |-> s]

\* every handle an entry holds
HandlesOf(e) ==
    IF e.shape = "dict" THEN Range(Flatten([i \in DOMAIN e.items |-> e.items[i].hs]))
    ELSE Range(e.hs)

\* CachedElement.__init__
CachedElement(elements, context_hash) ==
    [elements |-> elements, context_hash |-> context_hash]

Miss == [shape |-> "miss", hs |-> <<>>, items |-> <<>>]
NoEntry == [elements |-> Miss, context_hash |-> NoneHash]

\* "not e.is_enabled() or not e.is_displayed()" for a list of handles, when no
\* call raised
AnyOff(d, s) == \E i \in DOMAIN s : ~Enabled(d, s[i]) \/ ~Displayed(d, s[i])

\* the dict branch of is_stale: stale is assigned once per value, so the
\* value of the last item is what is left after the loop
DictStale(d, its) ==
    IF its = <<>> THEN FALSE ELSE AnyOff(d, its[Len(its)].hs)

\* is_stale without the comparison of the context hash
is_stale_nohash(entry, context_hash, d) ==
    LET es == entry.elements IN
    IF \E h \in HandlesOf(es) : ~Attached(d, h) THEN TRUE
    ELSE IF es.shape = "dict" THEN DictStale(d, es.items)
    ELSE AnyOff(d, es.hs)

\* is_stale without the probes of the elements
is_stale_nolive(entry, context_hash, d) ==
    context_hash # entry.context_hash

\* CachedElement.is_stale
is_stale(entry, context_hash, d) ==
    LET es == entry.elements IN
    IF context_hash # entry.context_hash THEN TRUE
    \* any probe of a detached handle raises StaleElementReferenceException
    ELSE IF \E h \in HandlesOf(es) : ~Attached(d, h) THEN TRUE
    ELSE IF es.shape = "dict" THEN DictStale(d, es.items)
    ELSE AnyOff(d, es.hs)

\* PageElementCache.__init__
NewCache(root) == [current_page_id |-> root, cache |-> <<>>]
NoCache == [current_page_id |-> 0, cache |-> <<>>]

\* page_stale answering that every call meets a new root
page_stale_always(c, root) == TRUE

\* PageElementCache.page_stale
page_stale(c, root) == root # c.current_page_id

\* reset recording the new root and keeping the entries
reset_keep(c, root) == [c EXCEPT !.current_page_id = root]

\* PageElementCache.reset
reset(c, root) == [current_page_id |-> root, cache |-> <<>>]

\* self._cache[context_id, selector] = ...
Put(m, k, v) == [x \in DOMAIN m \cup {k} |-> IF x = k THEN v ELSE m[x]]

\* PageElementCache.remove
remove(c, k) == [c EXCEPT !.cache = [x \in DOMAIN c.cache \ {k} |-> c.cache[x]]]

\* PageElementCache.write
write(c, root, k, context_hash, elements) ==
    LET c1 == IF page_stale(c, root) THEN reset(c, root) ELSE c
    IN [c1 EXCEPT !.cache = Put(c1.cache, k, CachedElement(elements, context_hash))]

\* PageElementCache.read: the cache after the call and what the call returns
read(c, root, d, k, context_hash) ==
    IF page_stale(c, root) THEN [cache |-> reset(c, root), result |-> Miss]
    ELSE IF k \notin DOMAIN c.cache THEN [cache |-> c, result |-> Miss]
    ELSE IF is_stale(c.cache[k], context_hash, d)
         THEN [cache |-> remove(c, k), result |-> Miss]
    ELSE [cache |-> c, result |-> c.cache[k].elements]

-----------------------------------------------------------------------------
(* Values a test writes to a field *)

BoolV(b) == [t |-> "bool", b |-> b, s |-> ""]
StrV(s) == [t |-> "str", b |-> FALSE, s |-> s]
\* Python truth of a value: "if v"
Truthy(v) == IF v.t = "bool" THEN v.b ELSE v.s # ""

-----------------------------------------------------------------------------
(* pageobject.py: locating elements *)

\* A field descriptor is its configuration (PageElement.__init__)
Field(cls, loc, enable_cache, timeout, ignore_visibility) ==
    [cls |-> cls, loc |-> loc, enable_cache |-> enable_cache,
     timeout |-> timeout, ignore_visibility |-> ignore_visibility]

AllHandles == [i \in 1..NumElems |-> i]

\* driver: the attached elements a locator matches, in DOM order
Matching(d, loc) ==
    LET here(h) == Attached(d, h) IN SelectSeq(AllHandles, here)

\* the outcome of a _find call: the exception it raised ("" for none), the
\* handles it returned, and how many waits and direct fetches it issued
Found(exc, hs, waits, fetches) ==
    [exc |-> exc, hs |-> hs, waits |-> waits, fetches |-> fetches]

\* a _find whose fetch of many raises on no match as the fetch of one does
find_one_only(f, ctx, d, cmp, many) ==
    LET m == Matching(d, f.loc)
        gone == ctx = CompCtx /\ ~cmp.attached
        visible == ~gone /\ m # <<>> /\ Displayed(d, m[1])
        waits == IF f.timeout # 0 THEN 1 ELSE 0
    IN  IF f.timeout # 0 /\ ~visible /\ ~f.ignore_visibility
        THEN Found("TimeoutException", <<>>, waits, 0)
        ELSE IF gone THEN Found("StaleElementReferenceException", <<>>, waits, 1)
        ELSE IF m = <<>> THEN Found("NoSuchElementException", <<>>, waits, 1)
        ELSE Found("", IF many THEN m ELSE <<m[1]>>, waits, 1)

\* a _find whose wait raises its timeout whatever ignore_visibility says
find_strict(f, ctx, d, cmp, many) ==
    LET m == Matching(d, f.loc)
        gone == ctx = CompCtx /\ ~cmp.attached
        visible == ~gone /\ m # <<>> /\ Displayed(d, m[1])
        waits == IF f.timeout # 0 THEN 1 ELSE 0
    IN  IF f.timeout # 0 /\ ~visible
        THEN Found("TimeoutException", <<>>, waits, 0)
        ELSE IF gone THEN Found("StaleElementReferenceException", <<>>, waits, 1)
        ELSE IF ~many /\ m = <<>> THEN Found("NoSuchElementException", <<>>, waits, 1)
        ELSE Found("", IF many THEN m ELSE <<m[1]>>, waits, 1)

\* PageElement._find with func = find_element (many = FALSE) or find_elements
find(f, ctx, d, cmp, many) ==
    LET m == Matching(d, f.loc)
        gone == ctx = CompCtx /\ ~cmp.attached
        \* EC.visibility_of_element_located: the first match is displayed
        visible == ~gone /\ m # <<>> /\ Displayed(d, m[1])
        waits == IF f.timeout # 0 THEN 1 ELSE 0
    IN  IF f.timeout # 0 /\ ~visible /\ ~f.ignore_visibility
        THEN Found("TimeoutException", <<>>, waits, 0)
        ELSE IF gone THEN Found("StaleElementReferenceException", <<>>, waits, 1)
        ELSE IF ~many /\ m = <<>> THEN Found("NoSuchElementException", <<>>, waits, 1)
        ELSE Found("", IF many THEN m ELSE <<m[1]>>, waits, 1)

\* context_id and context_hash of an instance (lines 144-146, 159-161)
ContextHash(ctx, cmp) == IF ctx = PageCtx THEN NoneHash ELSE cmp.hash

\* PageElement._read_cache: the cache after the call and what it returns
read_cache(f, ctx, loc, pc, c, root, d, cmp) ==
    IF ~f.enable_cache \/ ~pc THEN [cache |-> c, result |-> Miss]
    \* get_attribute('outerHTML') raised StaleElementReferenceException
    ELSE IF ctx = CompCtx /\ ~cmp.attached THEN [cache |-> c, result |-> Miss]
    ELSE read(c, root, d, <<ctx, loc>>, ContextHash(ctx, cmp))

\* PageElement._write_cache: the cache after the call
write_cache(f, ctx, loc, pc, c, root, cmp, elements) ==
    IF ~f.enable_cache \/ ~pc THEN c
    ELSE IF ctx = CompCtx /\ ~cmp.attached THEN c
    ELSE write(c, root, <<ctx, loc>>, ContextHash(ctx, cmp), elements)

-----------------------------------------------------------------------------
(* History records *)

NoOp == [kind |-> "none"]
\* no descriptor: the cache is called directly
NoField == Field("", "", FALSE, 0, FALSE)

\* the entry a key had before a call (NoEntry when it had none)
EntryOf(c, k) == IF k \in DOMAIN c.cache THEN c.cache[k] ELSE NoEntry

\* keys written since the cache last met a root other than the recorded one
Since(c, root, since) == IF root # c.current_page_id THEN {} ELSE since

-----------------------------------------------------------------------------
(* The driver acts: navigation, frame and window switches, script rewrites *)

DriverStep ==
    /\ op' = NoOp
    /\ prev' = NoOp
    /\ UNCHANGED <<kind, config, cache, sinceReset>>

\* a new document, or a switch to another frame or window: the <html> handle
\* found by find_element_by_tag_name('html') is another one
ChangeRoot(r) ==
    /\ r # htmlId
    /\ htmlId' = r
    /\ UNCHANGED <<dom, comp, dictDom>>
    /\ DriverStep

\* the element behind h leaves the DOM: h is detached from now on
Detach(h) ==
    /\ dom[h].attached
    /\ dom' = [dom EXCEPT ![h] = GoneElem]
    /\ UNCHANGED <<htmlId, comp, dictDom>>
    /\ DriverStep

\* the element behind h is enabled or disabled
SetEnabled(h) ==
    /\ dom[h].attached
    /\ dom' = [dom EXCEPT ![h].enabled = ~dom[h].enabled]
    /\ UNCHANGED <<htmlId, comp, dictDom>>
    /\ DriverStep

\* the element behind h is shown or hidden
SetDisplayed(h) ==
    /\ dom[h].attached
    /\ dom' = [dom EXCEPT ![h].displayed = ~dom[h].displayed]
    /\ UNCHANGED <<htmlId, comp, dictDom>>
    /\ DriverStep

-----------------------------------------------------------------------------
(* The cache called directly: PageElementCache.write / read / remove *)

\* the data structures callers store (cache.py lines 57-60)
CacheInputs ==
    {One(h) : h \in Handles}
    \cup {List(AllHandles)}
    \cup {Dict(<<Item("a", FALSE, <<1>>), Item("b", FALSE, <<NumElems>>)>>),
          Dict(<<Item("a", TRUE, <<NumElems>>), Item("b", TRUE, <<1>>)>>)}

CacheLocs == {"s"}
CacheHashes == {NoneHash} \cup Hashes

CacheWrite(ctx, sel, h, es) ==
    /\ cache' = write(cache, htmlId, <<ctx, sel>>, h, es)
    /\ sinceReset' = Since(cache, htmlId, sinceReset) \cup {<<ctx, sel>>}
    /\ op' = [kind |-> "cache.write", key |-> <<ctx, sel>>, hash |-> h,
              rootChanged |-> htmlId # cache.current_page_id, result |-> es]
    /\ prev' = NoOp
    /\ UNCHANGED <<driver, config>>

CacheRead(ctx, sel, h) ==
    LET r == read(cache, htmlId, dom, <<ctx, sel>>, h) IN
    /\ cache' = r.cache
    /\ sinceReset' = Since(cache, htmlId, sinceReset)
    /\ op' = [kind |-> "cache.read", key |-> <<ctx, sel>>, hash |-> h,
              rootChanged |-> htmlId # cache.current_page_id,
              pre |-> EntryOf(cache, <<ctx, sel>>), result |-> r.result]
    /\ prev' = NoOp
    /\ UNCHANGED <<driver, config>>

CacheRemove(ctx, sel) ==
    /\ cache' = remove(cache, <<ctx, sel>>)
    /\ op' = [kind |-> "cache.remove", key |-> <<ctx, sel>>]
    /\ prev' = NoOp
    /\ UNCHANGED <<driver, config, sinceReset>>

\* a page with no table on it
NoTable == <<>>
\* no class is declared
NoDecl == <<>>
\* no element is read for its value
NoContent == <<>>
\* no call is in progress
NoCall == [at |-> "none"]

InitDriver ==
    /\ table = NoTable
    /\ decl = NoDecl
    /\ content = NoContent
    /\ inflight = NoCall
    /\ htmlId \in RootIds
    /\ dom = [h \in Handles |-> LiveElem]
    /\ comp = [hash |-> 1, attached |-> TRUE]
    /\ dictDom = [container |-> TRUE, keys |-> [h \in Handles |-> TRUE], multi |-> FALSE]
    /\ op = NoOp
    /\ prev = NoOp
    /\ sinceReset = {}

\* a page with caching on (PageObject.__init__ builds the cache)
InitCache ==
    /\ InitDriver
    /\ kind = "text"
    /\ pageCache = TRUE
    /\ field = NoField
    /\ instance = PageCtx
    /\ cache = NewCache(htmlId)

NextCache ==
    \/ \E r \in RootIds : ChangeRoot(r)
    \/ \E h \in Handles : Detach(h)
    \/ \E h \in Handles : SetEnabled(h)
    \/ \E h \in Handles : SetDisplayed(h)
    \/ \E ctx \in ContextIds, sel \in CacheLocs, h \in CacheHashes, es \in CacheInputs :
          CacheWrite(ctx, sel, h, es)
    \/ \E ctx \in ContextIds, sel \in CacheLocs, h \in CacheHashes : CacheRead(ctx, sel, h)
    \/ \E ctx \in ContextIds, sel \in CacheLocs : CacheRemove(ctx, sel)

SpecCache == InitCache /\ [][NextCache]_vars

-----------------------------------------------------------------------------
(* pageobject.py: the default write rule, and its two earlier variants *)

Click(h) == [act |-> "click", h |-> h]
Clear(h) == [act |-> "clear", h |-> h]
SendKeys(h) == [act |-> "send_keys", h |-> h]

\* driver: click() toggles a checkbox and selects a radio
Clicked(k, st, h) ==
    [dom |-> [st.dom EXCEPT ![h].selected =
                 IF k = "checkbox" THEN ~@ ELSE IF k = "radio" THEN TRUE ELSE @],
     log |-> Append(st.log, Click(h))]

\* clear() then send_keys(str(value))
Typed(st, h) == [dom |-> st.dom, log |-> st.log \o <<Clear(h), SendKeys(h)>>]

\* "e.is_selected() is not v": an identity test, true of every non-boolean v
IsNot(selected, v) == v.t # "bool" \/ selected # v.b

\* a write rule that clicks checkboxes and radios whatever the value
set_element_always(k, st, h, v) ==
    IF k \in {"checkbox", "radio"} THEN Clicked(k, st, h) ELSE Typed(st, h)

\* a write rule that treats a radio as a checkbox
set_element_radio_toggle(k, st, h, v) ==
    IF k \in {"checkbox", "radio"}
    THEN (IF IsNot(st.dom[h].selected, v) THEN Clicked(k, st, h) ELSE st)
    ELSE Typed(st, h)

\* PageElement._set_element (pageobject/pageobject.py); k is what
\* get_attribute('type') answers; st is the DOM and the driver calls so far
set_element(k, st, h, v) ==
    IF k = "checkbox" THEN (IF IsNot(st.dom[h].selected, v) THEN Clicked(k, st, h) ELSE st)
    ELSE IF k = "radio" THEN (IF Truthy(v) THEN Clicked(k, st, h) ELSE st)
    ELSE Typed(st, h)

\* PageObject.set_element (page_object.py): a radio is clicked on "value is True"
set_element_static(k, st, h, v) ==
    IF k = "checkbox" THEN (IF IsNot(st.dom[h].selected, v) THEN Clicked(k, st, h) ELSE st)
    ELSE IF k = "radio" THEN (IF v.t = "bool" /\ v.b THEN Clicked(k, st, h) ELSE st)
    ELSE Typed(st, h)

\* PageElement._set_element (pageobj/page_object.py): getattr(self, '_' + type,
\* self._input), with _checkbox, _radio and _input
set_element_getattr(k, st, h, v) ==
    IF k = "checkbox" THEN (IF IsNot(st.dom[h].selected, v) THEN Clicked(k, st, h) ELSE st)
    ELSE IF k = "radio" THEN (IF Truthy(v) THEN Clicked(k, st, h) ELSE st)
    ELSE Typed(st, h)

\* PageElement._assign_element with no write_hook
assign_element(k, st, h, v) == set_element(k, st, h, v)

\* [self._assign_element(instance, e, v) for (e, v) in pairs]
RECURSIVE AssignAll(_, _, _)
AssignAll(k, st, pairs) ==
    IF pairs = <<>> THEN st
    ELSE AssignAll(k, assign_element(k, st, Head(pairs).h, Head(pairs).v), Tail(pairs))

Min(a, b) == IF a < b THEN a ELSE b
\* zip(elements, values)
Zip(hs, vs) == [i \in 1..Min(Len(hs), Len(vs)) |-> [h |-> hs[i], v |-> vs[i]]]

\* the values a PageElements write accepts
ListV(vs) == [t |-> "list", vs |-> vs]
DictV(kvs) == [t |-> "dict", kvs |-> kvs]
NoneV == [t |-> "NoneType", b |-> FALSE, s |-> ""]
\* a dict key as int(k) treats it: an integer n; the text of an integer n,
\* which int() converts; a text int() rejects with ValueError; None, which
\* int() rejects with TypeError
IntKey(n) == [lit |-> "int", int |-> TRUE, n |-> n]
StrKey(n) == [lit |-> "str", int |-> TRUE, n |-> n]
BadKey == [lit |-> "str", int |-> FALSE, n |-> 0]
NoneKey == [lit |-> "None", int |-> FALSE, n |-> 0]
KV(k, v) == [k |-> k, v |-> v]

\* elements[index] raises IndexError outside -len .. len-1
InRange(n, len) == -len <= n /\ n < len
\* Python index n as a position of a TLA+ sequence of length len
Pos(n, len) == IF n >= 0 THEN n + 1 ELSE len + n + 1

\* the dict branch with an index out of range taken as the last element
dict_pairs_clamped(hs, kvs) ==
    LET ok(kv) == kv.k.int /\ hs # <<>>
        good == SelectSeq(kvs, ok)
    IN [i \in DOMAIN good |->
          [h |-> IF InRange(good[i].k.n, Len(hs)) THEN hs[Pos(good[i].k.n, Len(hs))]
                 ELSE hs[Len(hs)],
           v |-> good[i].v]]

\* the dict branch of PageElements.__set__ (lines 364-373): the keys that
\* convert to an index in range, each with the element it names
dict_pairs(hs, kvs) ==
    LET ok(kv) == kv.k.int /\ InRange(kv.k.n, Len(hs))
        good == SelectSeq(kvs, ok)
    IN [i \in DOMAIN good |-> [h |-> hs[Pos(good[i].k.n, Len(hs))], v |-> good[i].v]]

\* "except ValueError" and "except IndexError" are all the dict loop catches:
\* the TypeError of int(None) ends the loop and the write
Uncaught(kvs) == {j \in DOMAIN kvs : kvs[j].k.lit = "None"}
KeysTaken(kvs) ==
    IF Uncaught(kvs) = {} THEN kvs
    ELSE SubSeq(kvs, 1, (CHOOSE j \in Uncaught(kvs) : \A i \in Uncaught(kvs) : j <= i) - 1)
dict_exc(kvs) == IF Uncaught(kvs) = {} THEN "" ELSE "TypeError"

\* a dispatch that broadcasts every value that is neither a list nor a dict
Assignments_lenient(hs, value) ==
    IF value.t = "list" THEN [exc |-> "", pairs |-> Zip(hs, value.vs)]
    ELSE IF value.t = "dict"
         THEN [exc |-> dict_exc(value.kvs),
               pairs |-> dict_pairs(hs, KeysTaken(value.kvs))]
    ELSE [exc |-> "", pairs |-> [i \in DOMAIN hs |-> [h |-> hs[i], v |-> value]]]

\* the assignments a PageElements write makes, and the exception that ends it
\* (lines 362-377)
Assignments(hs, value) ==
    IF value.t = "list" THEN [exc |-> "", pairs |-> Zip(hs, value.vs)]
    ELSE IF value.t = "dict"
         THEN [exc |-> dict_exc(value.kvs),
               pairs |-> dict_pairs(hs, KeysTaken(value.kvs))]
    ELSE IF value.t \in {"int", "str"}
         THEN [exc |-> "", pairs |-> [i \in DOMAIN hs |-> [h |-> hs[i], v |-> value]]]
    ELSE [exc |-> "ValueError", pairs |-> <<>>]

-----------------------------------------------------------------------------
(* pageobject.py: the descriptors *)

\* what a read returns for "nothing": None
None == Miss

\* PageElement._convert_element with no component, value_only or read_hook: the
\* raw element
convert_element(e) == e

\* the history record of a descriptor call; was is the DOM the call met
FieldOp(knd, f, ctx, loc, exc, result, fd, hit, log, value, hs) ==
    [kind |-> knd, cls |-> f.cls, key |-> <<ctx, loc>>,
     pre |-> EntryOf(cache, <<ctx, loc>>),
     rootChanged |-> htmlId # cache.current_page_id,
     hash |-> ContextHash(ctx, comp),
     exc |-> exc, result |-> result,
     finds |-> IF hit THEN 0 ELSE 1,
     fetches |-> IF hit THEN 0 ELSE fd.fetches,
     hit |-> hit, found |-> IF hit THEN "" ELSE fd.exc,
     log |-> log, value |-> value, hs |-> hs, was |-> dom]

\* what a write keeps of the call before it
Digest(o) ==
    IF o.kind = "set" THEN [kind |-> "set", cls |-> o.cls, key |-> o.key,
                            value |-> o.value, hs |-> o.hs, log |-> o.log,
                            exc |-> o.exc, was |-> o.was]
    ELSE NoOp

NoLog == <<>>
NoValue == NoneV

\* PageElement.__get__ (many = FALSE), PageElements.__get__ (many = TRUE) and
\* the _fetch_element of the two template descriptors, on locator loc
Get(ctx, f, loc, many) ==
    LET rc == read_cache(f, ctx, loc, pageCache, cache, htmlId, dom, comp)
        hit == rc.result # Miss
        fd == find(f, ctx, dom, comp, many)
        elements == IF hit THEN rc.result
                    ELSE IF many THEN List(fd.hs) ELSE One(fd.hs[1])
        \* the entry is what a descriptor of the other kind stored: a list has
        \* no tag_name (AttributeError), an element is not iterable (TypeError)
        clash == hit /\ rc.result.shape # (IF many THEN "list" ELSE "one")
    IN  /\ cache' = IF hit \/ fd.exc # "" THEN rc.cache
                    ELSE write_cache(f, ctx, loc, pageCache, rc.cache, htmlId, comp, elements)
        \* "except Exception": return None, or [] for the list descriptors
        /\ op' = FieldOp("get", f, ctx, loc, "",
                         IF ~clash /\ (hit \/ fd.exc = "") THEN convert_element(elements)
                         ELSE IF many THEN List(<<>>) ELSE None,
                         fd, hit, NoLog, NoValue, <<>>)
        /\ prev' = NoOp
        /\ UNCHANGED <<driver, config, sinceReset>>

PageElement_get(ctx, f) == f.cls = "PageElement" /\ Get(ctx, f, f.loc, FALSE)

PageElements_get(ctx, f) == f.cls = "PageElements" /\ Get(ctx, f, f.loc, TRUE)

\* PageElement.__set__
PageElement_set(ctx, f, v) ==
    LET rc == read_cache(f, ctx, f.loc, pageCache, cache, htmlId, dom, comp)
        hit == rc.result # Miss
        fd == find(f, ctx, dom, comp, FALSE)
        ok == hit \/ fd.exc = ""
        h == IF hit THEN rc.result.hs[1] ELSE fd.hs[1]
        st == IF ok THEN assign_element(kind, [dom |-> dom, log |-> <<>>], h, v)
              ELSE [dom |-> dom, log |-> <<>>]
    IN  /\ f.cls = "PageElement"
        /\ dom' = st.dom
        /\ cache' = IF ok THEN write_cache(f, ctx, f.loc, pageCache, rc.cache, htmlId, comp, One(h))
                    ELSE rc.cache
        /\ op' = FieldOp("set", f, ctx, f.loc, IF ok THEN "" ELSE fd.exc, None,
                         fd, hit, st.log, v, IF ok THEN <<h>> ELSE <<>>)
        /\ prev' = Digest(op)
        /\ UNCHANGED <<htmlId, kind, comp, dictDom, config, sinceReset>>

\* PageElements.__set__: the cache is read but never written
PageElements_set(ctx, f, value) ==
    LET rc == read_cache(f, ctx, f.loc, pageCache, cache, htmlId, dom, comp)
        hit == rc.result # Miss
        fd == find(f, ctx, dom, comp, TRUE)
        ok == hit \/ fd.exc = ""
        hs == IF hit THEN rc.result.hs ELSE fd.hs
        as == Assignments(hs, value)
        st == IF ok THEN AssignAll(kind, [dom |-> dom, log |-> <<>>], as.pairs)
              ELSE [dom |-> dom, log |-> <<>>]
    IN  /\ f.cls = "PageElements"
        /\ dom' = st.dom
        /\ cache' = rc.cache
        /\ op' = FieldOp("set", f, ctx, f.loc, IF ok THEN as.exc ELSE fd.exc, None,
                         fd, hit, st.log, value, IF ok THEN hs ELSE <<>>)
        /\ prev' = Digest(op)
        /\ UNCHANGED <<htmlId, kind, comp, dictDom, config, sinceReset>>

\* self._locator[1].format(*parameters): the template made solid
Solidify(template, p) == template \o p

\* PageElementTemplate._fetch_element: what the callable a read returns does
PageElementTemplate_fetch(ctx, f, p) ==
    f.cls = "PageElementTemplate" /\ Get(ctx, f, Solidify(f.loc, p), FALSE)

\* PageElementsTemplate._fetch_element
PageElementsTemplate_fetch(ctx, f, p) ==
    f.cls = "PageElementsTemplate" /\ Get(ctx, f, Solidify(f.loc, p), TRUE)

\* PageElementTemplate.__set__ with value = (p, v): the cache is written on a
\* miss, before the element is assigned
PageElementTemplate_set(ctx, f, p, v) ==
    LET loc == Solidify(f.loc, p)
        rc == read_cache(f, ctx, loc, pageCache, cache, htmlId, dom, comp)
        hit == rc.result # Miss
        fd == find(f, ctx, dom, comp, FALSE)
        ok == hit \/ fd.exc = ""
        h == IF hit THEN rc.result.hs[1] ELSE fd.hs[1]
        st == IF ok THEN assign_element(kind, [dom |-> dom, log |-> <<>>], h, v)
              ELSE [dom |-> dom, log |-> <<>>]
    IN  /\ f.cls = "PageElementTemplate"
        /\ dom' = st.dom
        /\ cache' = IF ~hit /\ ok
                    THEN write_cache(f, ctx, loc, pageCache, rc.cache, htmlId, comp, One(h))
                    ELSE rc.cache
        /\ op' = FieldOp("set", f, ctx, loc, IF ok THEN "" ELSE fd.exc, None,
                         fd, hit, st.log, v, IF ok THEN <<h>> ELSE <<>>)
        /\ prev' = NoOp
        /\ UNCHANGED <<htmlId, kind, comp, dictDom, config, sinceReset>>

\* PageElementsTemplate.__set__ with value = (p, value)
PageElementsTemplate_set(ctx, f, p, value) ==
    LET loc == Solidify(f.loc, p)
        rc == read_cache(f, ctx, loc, pageCache, cache, htmlId, dom, comp)
        hit == rc.result # Miss
        fd == find(f, ctx, dom, comp, TRUE)
        ok == hit \/ fd.exc = ""
        hs == IF hit THEN rc.result.hs ELSE fd.hs
        as == Assignments(hs, value)
        st == IF ok THEN AssignAll(kind, [dom |-> dom, log |-> <<>>], as.pairs)
              ELSE [dom |-> dom, log |-> <<>>]
    IN  /\ f.cls = "PageElementsTemplate"
        /\ dom' = st.dom
        /\ cache' = IF ~hit /\ ok
                    THEN write_cache(f, ctx, loc, pageCache, rc.cache, htmlId, comp, List(hs))
                    ELSE rc.cache
        /\ op' = FieldOp("set", f, ctx, loc, IF ok THEN as.exc ELSE fd.exc, None,
                         fd, hit, st.log, value, IF ok THEN hs ELSE <<>>)
        /\ prev' = NoOp
        /\ UNCHANGED <<htmlId, kind, comp, dictDom, config, sinceReset>>

(* PageElementDict.  The driver's view of a dictionary: a container, inside  *)
(* it one item per handle i, whose key element exists when dictDom.keys[i]   *)
(* and whose value element is the element behind handle i; or, when          *)
(* dictDom.multi, one item only, item 1, whose value elements are all the    *)
(* elements.  The key read from item i is i.                                 *)

\* PageElementDict.__init__ hands enable_cache to no one: the descriptor is
\* built with PageElement's default, False (line 579)
PageElementDict(loc, timeout, ignore_visibility, enable_cache) ==
    Field("PageElementDict", loc, FALSE, timeout, ignore_visibility)

\* _get_items finding the items although the container is not there
get_items_nocontainer(f, ctx, cmp, dd) == [exc |-> "", items |-> AllHandles]

\* the items in the container
ItemsOf(dd) == IF dd.multi THEN <<1>> ELSE AllHandles

\* the elements value_loc matches in item i
ValuesOf(d, dd, i) ==
    IF dd.multi THEN Matching(d, "value")
    ELSE IF Attached(d, i) THEN <<i>> ELSE <<>>

\* PageElementDict._get_items: the container, then the items in it; "except
\* Exception: items = []"
get_items(f, ctx, cmp, dd) ==
    LET gone == ctx = CompCtx /\ ~cmp.attached IN
    IF gone \/ ~dd.container THEN [exc |-> "", items |-> <<>>]
    ELSE [exc |-> "", items |-> ItemsOf(dd)]

\* PageElementDict._get_key: the key of item i, or None ("except Exception")
get_key(dd, i) == [none |-> ~dd.keys[i], key |-> i]

\* the _find(item, instance, self.value_loc, item.find_elements) of _get_value
\* and _set_value: the wait, then the value elements of item i
find_value(f, d, dd, i) ==
    LET m == ValuesOf(d, dd, i)
        visible == m # <<>> /\ Displayed(d, m[1])
    IN  IF f.timeout # 0 /\ ~visible /\ ~f.ignore_visibility
        THEN Found("TimeoutException", <<>>, 1, 0)
        ELSE Found("", m, IF f.timeout # 0 THEN 1 ELSE 0, 1)

\* PageElementDict._get_value: (ves, value), value None on any exception
get_value(f, d, dd, i) ==
    LET fd == find_value(f, d, dd, i) IN
    [exc |-> "", none |-> fd.exc # "", ves |-> fd.hs]

\* the loop of PageElementDict.__get__ (lines 732-741) over the items left
RECURSIVE DictEntries(_, _, _, _)
DictEntries(f, d, dd, items) ==
    IF items = <<>> THEN <<>>
    ELSE LET i == Head(items)
             k == get_key(dd, i)
             v == get_value(f, d, dd, i)
             rest == DictEntries(f, d, dd, Tail(items))
         IN IF k.none \/ v.none THEN rest
            ELSE <<Item(k.key, Len(v.ves) = 1, v.ves)>> \o rest

\* value[key] of the mapping written, if key is in it
HasKey(value, key) == \E j \in DOMAIN value.kvs : value.kvs[j].k = IntKey(key)
Lookup(value, key) ==
    value.kvs[CHOOSE j \in DOMAIN value.kvs : value.kvs[j].k = IntKey(key)].v

\* PageElementDict._set_value after its _find: "target = values if len(ves) > 1
\* else [values]", then zip(ves, target).  With several value elements the
\* value itself is zipped: a list by its members, a string by its characters
\* (the strings written here have one), and zip of a boolean is a TypeError
set_value(ves, v) ==
    IF Len(ves) > 1
    THEN IF v.t = "list" THEN [exc |-> "", pairs |-> Zip(ves, v.vs)]
         ELSE IF v.t = "str" THEN [exc |-> "", pairs |-> Zip(ves, <<v>>)]
         ELSE [exc |-> "TypeError", pairs |-> <<>>]
    ELSE [exc |-> "", pairs |-> Zip(ves, <<v>>)]

\* the loop of PageElementDict.__set__ (lines 766-773) over the items left;
\* _set_value looks the value elements up again and does not catch
RECURSIVE DictAssign(_, _, _, _, _, _)
DictAssign(f, k, st, dd, items, value) ==
    IF items = <<>> THEN [exc |-> "", dom |-> st.dom, log |-> st.log]
    ELSE LET i == Head(items)
             key == get_key(dd, i)
             fd == find_value(f, st.dom, dd, i)
             sv == set_value(fd.hs, Lookup(value, key.key))
         IN IF key.none \/ ~HasKey(value, key.key)
            THEN DictAssign(f, k, st, dd, Tail(items), value)
            ELSE IF fd.exc # "" THEN [exc |-> fd.exc, dom |-> st.dom, log |-> st.log]
            ELSE IF sv.exc # "" THEN [exc |-> sv.exc, dom |-> st.dom, log |-> st.log]
            ELSE DictAssign(f, k, AssignAll(k, st, sv.pairs), dd, Tail(items), value)

\* PageElementDict._set_cached_elements, the loop over value.items() left:
\* keys the cached dict does not hold are skipped
RECURSIVE CachedAssign(_, _, _, _)
CachedAssign(k, st, items, kvs) ==
    IF kvs = <<>> THEN st
    ELSE LET kv == Head(kvs)
             held == {j \in DOMAIN items : IntKey(items[j].key) = kv.k}
         IN IF held = {} THEN CachedAssign(k, st, items, Tail(kvs))
            ELSE CachedAssign(k,
                     AssignAll(k, st, Zip(items[CHOOSE j \in held : TRUE].hs, <<kv.v>>)),
                     items, Tail(kvs))

\* PageElementDict.__get__
PageElementDict_get(ctx, f) ==
    LET rc == read_cache(f, ctx, f.loc, pageCache, cache, htmlId, dom, comp)
        hit == rc.result # Miss
        its == get_items(f, ctx, comp, dictDom)
        entries == DictEntries(f, dom, dictDom, its.items)
    IN  /\ f.cls = "PageElementDict"
        /\ cache' = IF hit THEN rc.cache
                    ELSE write_cache(f, ctx, f.loc, pageCache, rc.cache, htmlId, comp,
                                     Dict(entries))
        /\ op' = FieldOp("get", f, ctx, f.loc, "",
                         IF hit THEN rc.result ELSE Dict(entries),
                         Found("", its.items, 0, 1), hit, NoLog, NoValue, <<>>)
        /\ prev' = NoOp
        /\ UNCHANGED <<driver, config, sinceReset>>

\* PageElementDict.__set__
PageElementDict_set(ctx, f, value) ==
    LET rc == read_cache(f, ctx, f.loc, pageCache, cache, htmlId, dom, comp)
        hit == rc.result # Miss
        its == get_items(f, ctx, comp, dictDom)
        start == [dom |-> dom, log |-> <<>>]
        r == IF hit
             THEN LET st == CachedAssign(kind, start, rc.result.items, value.kvs)
                  IN [exc |-> "", dom |-> st.dom, log |-> st.log]
             ELSE DictAssign(f, kind, start, dictDom, its.items, value)
    IN  /\ f.cls = "PageElementDict"
        /\ dom' = r.dom
        /\ cache' = IF r.exc # "" THEN rc.cache
                    ELSE write_cache(f, ctx, f.loc, pageCache, rc.cache, htmlId, comp,
                                     IF hit THEN rc.result
                                     ELSE Dict(DictEntries(f, dom, dictDom, its.items)))
        /\ op' = FieldOp("set", f, ctx, f.loc, r.exc, None,
                         Found("", its.items, 0, 1), hit, r.log, value, its.items)
        /\ prev' = NoOp
        /\ UNCHANGED <<htmlId, kind, comp, dictDom, config, sinceReset>>

-----------------------------------------------------------------------------
(* Fields on a page: one descriptor, read and written while the driver acts *)

\* a script rewrites the markup of the component: same _id, another outerHTML
ChangeMarkup(x) ==
    /\ comp.attached
    /\ x # comp.hash
    /\ comp' = [comp EXCEPT !.hash = x]
    /\ UNCHANGED <<htmlId, dom, dictDom>>
    /\ DriverStep

\* the element of the component leaves the DOM
DetachContext ==
    /\ comp.attached
    /\ comp' = [comp EXCEPT !.attached = FALSE]
    /\ UNCHANGED <<htmlId, dom, dictDom>>
    /\ DriverStep

\* the container of the dictionary appears or disappears
ToggleContainer ==
    /\ dictDom' = [dictDom EXCEPT !.container = ~@]
    /\ UNCHANGED <<htmlId, dom, comp>>
    /\ DriverStep

\* the key element of item h appears or disappears
ToggleKey(h) ==
    /\ dictDom' = [dictDom EXCEPT !.keys[h] = ~@]
    /\ UNCHANGED <<htmlId, dom, comp>>
    /\ DriverStep

\* a script renders the dictionary again: as one item holding every value
\* element, or back as one item per element
Regroup ==
    /\ dictDom' = [dictDom EXCEPT !.multi = ~@]
    /\ UNCHANGED <<htmlId, dom, comp>>
    /\ DriverStep

\* timeout and ignore_visibility as the descriptors are configured
WaitModes == {<<0, FALSE>>, <<1, FALSE>>, <<1, TRUE>>}

\* the wait is one piece of code for every descriptor: the templates and the
\* dictionary are configured without ignore_visibility
DerivedWaitModes == {w \in WaitModes : ~w[2]}

Fields ==
    {Field(cls, "s", ec, w[1], w[2]) :
        cls \in {"PageElement", "PageElements"}, ec \in BOOLEAN, w \in WaitModes}
    \cup {Field(cls, "s", ec, w[1], w[2]) :
            cls \in {"PageElementTemplate", "PageElementsTemplate"},
            ec \in BOOLEAN, w \in DerivedWaitModes}
    \cup {PageElementDict("s", w[1], w[2], ec) : ec \in BOOLEAN, w \in DerivedWaitModes}

TemplateParams == {"a", "b"}

\* what the tests write
X == StrV("x")
SingleValues == {X}
MultiValues == {ListV(<<X>>), X}
\* what the tests write to a list template
TemplateValues == {ListV(<<X>>)}
DictValues ==
    {DictV(<<KV(IntKey(1), X)>>),
     DictV(<<KV(IntKey(1), BoolV(TRUE)), KV(IntKey(NumElems + 1), X)>>)}

InitField ==
    /\ InitDriver
    /\ kind = "text"
    /\ pageCache \in BOOLEAN
    /\ field \in Fields
    /\ instance \in ContextIds
    /\ cache = IF pageCache THEN NewCache(htmlId) ELSE NoCache

NextField ==
    \/ \E r \in RootIds : ChangeRoot(r)
    \/ \E h \in Handles : Detach(h)
    \/ \E h \in Handles : SetEnabled(h)
    \/ \E h \in Handles : SetDisplayed(h)
    \* driver steps a field cannot observe are left out
    \/ \E x \in Hashes : instance = CompCtx /\ ChangeMarkup(x)
    \/ instance = CompCtx /\ DetachContext
    \/ field.cls = "PageElementDict" /\ ToggleContainer
    \/ \E h \in Handles : field.cls = "PageElementDict" /\ ToggleKey(h)
    \/ field.cls = "PageElementDict" /\ Regroup
    \/ PageElement_get(instance, field)
    \/ PageElements_get(instance, field)
    \/ \E p \in TemplateParams : PageElementTemplate_fetch(instance, field, p)
    \/ \E p \in TemplateParams : PageElementsTemplate_fetch(instance, field, p)
    \/ PageElementDict_get(instance, field)
    \/ \E v \in SingleValues : PageElement_set(instance, field, v)
    \/ \E v \in MultiValues : PageElements_set(instance, field, v)
    \/ \E p \in TemplateParams, v \in SingleValues :
          PageElementTemplate_set(instance, field, p, v)
    \/ \E p \in TemplateParams, v \in TemplateValues :
          PageElementsTemplate_set(instance, field, p, v)
    \/ \E v \in DictValues : PageElementDict_set(instance, field, v)

SpecField == InitField /\ [][NextField]_vars

-----------------------------------------------------------------------------
(* Values written to controls: checkboxes, radios, text inputs *)

\* the user, or a script, ticks or unticks the control behind h
Toggle(h) ==
    /\ dom[h].attached
    /\ kind # "text"
    /\ dom' = [dom EXCEPT ![h].selected = ~@]
    /\ UNCHANGED <<htmlId, comp, dictDom>>
    /\ DriverStep

\* the two earlier write rules take the element itself
LegacyField(cls) == Field(cls, "s", FALSE, 0, FALSE)

LegacySet(cls, st, h, v) ==
    /\ dom[h].attached
    /\ dom' = st.dom
    /\ op' = FieldOp("set", LegacyField(cls), PageCtx, "s", "", None,
                     Found("", <<h>>, 0, 0), FALSE, st.log, v, <<h>>)
    /\ prev' = Digest(op)
    /\ UNCHANGED <<htmlId, kind, comp, dictDom, config, cache, sinceReset>>

\* page_object.py: PageObject.set_element(element, value)
PageObject_set_element(h, v) ==
    LegacySet("page_object.PageObject", set_element_static(kind, [dom |-> dom, log |-> <<>>], h, v), h, v)

\* pageobj/page_object.py: PageElement._set_element(element, value)
pageobj_set_element(h, v) ==
    LegacySet("pageobj.PageElement", set_element_getattr(kind, [dom |-> dom, log |-> <<>>], h, v), h, v)

Kinds == {"checkbox", "radio", "text"}
Booleans == {BoolV(TRUE), BoolV(FALSE)}
ScalarValues == Booleans \cup {X}

\* keys of a written dict: every index around the range of the elements
KeyRange == (0 - NumElems - 1)..NumElems
ShapedValues ==
    {ListV(<<BoolV(TRUE)>>), ListV(<<BoolV(FALSE), BoolV(TRUE), BoolV(TRUE)>>)}
    \cup {DictV(<<KV(IntKey(n), b)>>) : n \in KeyRange, b \in {BoolV(TRUE)}}
    \cup {DictV(<<KV(BadKey, BoolV(TRUE)), KV(IntKey(0), BoolV(FALSE))>>)}
    \cup {DictV(<<KV(IntKey(0), BoolV(TRUE)), KV(NoneKey, BoolV(TRUE)),
                  KV(IntKey(1), BoolV(TRUE))>>),
          DictV(<<KV(StrKey(1), BoolV(TRUE))>>)}
    \cup {X, BoolV(TRUE), NoneV}

ValueFields ==
    {Field(cls, "s", ec, 0, FALSE) : cls \in {"PageElement", "PageElements"},
                                     ec \in BOOLEAN}

InitValue ==
    /\ table = NoTable
    /\ decl = NoDecl
    /\ content = NoContent
    /\ inflight = NoCall
    /\ htmlId = 1
    /\ dom \in [Handles -> {[LiveElem EXCEPT !.selected = b] : b \in BOOLEAN}]
    /\ comp = [hash |-> 1, attached |-> TRUE]
    /\ dictDom = [container |-> TRUE, keys |-> [h \in Handles |-> TRUE], multi |-> FALSE]
    /\ op = NoOp
    /\ prev = NoOp
    /\ sinceReset = {}
    /\ kind \in Kinds
    /\ pageCache = TRUE
    /\ field \in ValueFields
    /\ instance = PageCtx
    /\ cache = NewCache(htmlId)

NextValue ==
    \/ \E h \in Handles : Detach(h)
    \/ \E h \in Handles : Toggle(h)
    \/ \E v \in ScalarValues : PageElement_set(instance, field, v)
    \/ \E v \in ShapedValues : PageElements_set(instance, field, v)
    \/ \E h \in Handles, v \in ScalarValues : PageObject_set_element(h, v)
    \/ \E h \in Handles, v \in ScalarValues : pageobj_set_element(h, v)

SpecValue == InitValue /\ [][NextValue]_vars

-----------------------------------------------------------------------------
(* PageTable: query and apply, and the two earlier searches *)

\* the text of a cell: its content, and whether blanks surround it
Text(s, pad) == [s |-> s, pad |-> pad]
\* str.strip()
Strip(t) == [t EXCEPT !.pad = FALSE]
\* a row whose component finds no element for a field: getattr gives None
NoCell == [s |-> "None", pad |-> FALSE]

\* a condition of a query: a literal to compare with, or a predicate, given
\* here by the field values it accepts
Literal(attr, ref) == [attr |-> attr, callable |-> FALSE, ref |-> ref, accepts |-> {}]
Predicate(attr, accepts) ==
    [attr |-> attr, callable |-> TRUE, ref |-> NoCell, accepts |-> accepts]

\* a cond that compares the text as it is
cond_nostrip(c, x) ==
    IF c.callable THEN x \in c.accepts
    ELSE x # NoCell /\ x = c.ref

\* PageTable._expand_conditions: the cond built for a condition, applied to the
\* field value x of a row (an element with text x, or None)
cond(c, x) ==
    IF c.callable THEN x \in c.accepts
    ELSE x # NoCell /\ Strip(x) = c.ref

\* pageobj/page_object.py, PageTable.query: x.get_attribute('textContent') == ref
cond_pageobj(c, x) ==
    IF c.callable THEN x \in c.accepts ELSE x = c.ref

\* page_object.py, TableBase.search: "lambda x: v == x" reads v when it is
\* called, after the loop over the conditions ended: every literal condition
\* compares with the value of the last condition; the cell value is e.text
cond_search(conds, c, x) ==
    IF c.callable THEN x \in c.accepts
    ELSE LET last == conds[Len(conds)]
         IN ~last.callable /\ x # NoCell /\ Strip(x) = last.ref

\* the three versions of the table
Versions == {"pageobject", "pageobj", "page_object"}

\* the cond of a version
Holds(ver, conds, c, x) ==
    IF ver = "pageobject" THEN cond(c, x)
    ELSE IF ver = "pageobj" THEN cond_pageobj(c, x)
    ELSE cond_search(conds, c, x)

\* pageobj: get_attribute on the None of a missing field is an AttributeError
Raises(ver, c, x) == ver = "pageobj" /\ ~c.callable /\ x = NoCell

\* all(cond(getattr(row, attr)) for (attr, cond) in conditions.items()): the
\* fields read, in order, up to the first condition that fails or raises
RECURSIVE EvalRow(_, _, _, _, _)
EvalRow(ver, cells, h, all, conds) ==
    IF conds = <<>> THEN [match |-> TRUE, evals |-> <<>>, exc |-> ""]
    ELSE LET c == Head(conds)
             here == <<h, c.attr>>
         IN IF Raises(ver, c, cells[h][c.attr])
            THEN [match |-> FALSE, evals |-> <<here>>, exc |-> "AttributeError"]
            ELSE IF Holds(ver, all, c, cells[h][c.attr])
            THEN LET rest == EvalRow(ver, cells, h, all, Tail(conds))
                 IN [match |-> rest.match, evals |-> <<here>> \o rest.evals,
                     exc |-> rest.exc]
            ELSE [match |-> FALSE, evals |-> <<here>>, exc |-> ""]

\* one pass of a loop over the rows: the rows kept and the fields read.  stop
\* tells whether the loop ends at a row that matched
RECURSIVE Scan(_, _, _, _, _)
Scan(ver, cells, rows, conds, stop) ==
    IF rows = <<>> THEN [result |-> <<>>, evals |-> <<>>, exc |-> ""]
    ELSE LET r == EvalRow(ver, cells, Head(rows), conds, conds)
             got == IF r.match THEN <<Head(rows)>> ELSE <<>>
         IN IF r.exc # "" THEN [result |-> <<>>, evals |-> r.evals, exc |-> r.exc]
            ELSE IF got # <<>> /\ stop THEN [result |-> got, evals |-> r.evals, exc |-> ""]
            ELSE LET rest == Scan(ver, cells, Tail(rows), conds, stop)
                 IN [result |-> IF rest.exc # "" THEN <<>> ELSE got \o rest.result,
                     evals |-> r.evals \o rest.evals, exc |-> rest.exc]

\* a loop that ends after the first row whatever it finds
QueryLoop_firstrow(ver, cells, rows, conds, once) ==
    Scan(ver, cells, IF once /\ rows # <<>> THEN <<rows[1]>> ELSE rows, conds, once)

\* the loop of PageTable.query (lines 1094-1106; pageobj 212-224) and of
\* TableBase.search (page_object.py 304-312): "if result and once: return",
\* "if once: break" after the yield
QueryLoop(ver, cells, rows, conds, once) == Scan(ver, cells, rows, conds, once)

\* the loop of PageTable.apply (lines 1124-1137): result is never appended to,
\* so "if result and once" never breaks
ApplyLoop(cells, rows, conds, once) == Scan("pageobject", cells, rows, conds, FALSE)

\* what query returns: "return result[0]", "None if once and not result else
\* result"; search yields its rows
Row(h) == [t |-> "row", rows |-> <<h>>]
Rows(hs) == [t |-> "list", rows |-> hs]
NoRow == [t |-> "None", rows |-> <<>>]

\* a query that answers with a list whatever once is
Returned_list(ver, result, once) == Rows(result)

Returned(ver, result, once) ==
    IF ver = "page_object" THEN Rows(result)
    ELSE IF once THEN (IF result # <<>> THEN Row(result[1]) ELSE NoRow)
    ELSE Rows(result)

RowLoc == "row"
RowKey == <<CompCtx, RowLoc>>

\* an _all_rows that hands out whatever the cache holds for the rows, without
\* asking whether the entry is still good
all_rows_unchecked(pc, c, root, d, cmp) ==
    IF ~cmp.attached
    THEN [exc |-> "StaleElementReferenceException", rows |-> <<>>, cache |-> c,
          fetches |-> IF pc THEN 0 ELSE 1]
    ELSE LET held == IF pc THEN EntryOf(c, RowKey).elements ELSE Miss
             found == Matching(d, RowLoc)
         IN IF held # Miss /\ held.hs # <<>>
            THEN [exc |-> "", rows |-> held.hs, cache |-> c, fetches |-> 0]
            ELSE [exc |-> "", rows |-> found,
                  cache |-> IF pc THEN write(c, root, RowKey, cmp.hash, List(found))
                            ELSE c,
                  fetches |-> 1]

\* PageTable._all_rows: the cached rows if the page has a cache and the entry
\* is good and not empty, the rows the driver finds otherwise
all_rows(pc, c, root, d, cmp) ==
    IF ~cmp.attached
    THEN [exc |-> "StaleElementReferenceException", rows |-> <<>>, cache |-> c,
          fetches |-> IF pc THEN 0 ELSE 1]
    ELSE LET rd == IF pc THEN read(c, root, d, RowKey, cmp.hash)
                   ELSE [cache |-> c, result |-> Miss]
             found == Matching(d, RowLoc)
         IN IF rd.result # Miss /\ rd.result.hs # <<>>
            THEN [exc |-> "", rows |-> rd.result.hs, cache |-> rd.cache, fetches |-> 0]
            ELSE [exc |-> "", rows |-> found,
                  cache |-> IF pc THEN write(rd.cache, root, RowKey, cmp.hash, List(found))
                            ELSE rd.cache,
                  fetches |-> 1]

\* the rows of the two earlier tables: find_elements at every call
find_rows(d, cmp) ==
    IF ~cmp.attached
    THEN [exc |-> "StaleElementReferenceException", rows |-> <<>>, fetches |-> 1]
    ELSE [exc |-> "", rows |-> Matching(d, RowLoc), fetches |-> 1]

\* the history record of a call on the table
TableOp(knd, ver, once, conds, ar, sc) ==
    [kind |-> knd, ver |-> ver, once |-> once, conds |-> conds,
     rows |-> ar.rows, fetches |-> ar.fetches,
     exc |-> IF ar.exc # "" THEN ar.exc ELSE sc.exc,
     kept |-> IF ar.exc # "" THEN <<>> ELSE sc.result,
     evals |-> IF ar.exc # "" THEN <<>> ELSE sc.evals,
     result |-> IF ar.exc # "" \/ sc.exc # "" \/ knd = "apply" THEN NoRow
                ELSE Returned(ver, sc.result, once)]

\* PageTable.query (pageobject/pageobject.py)
PageTable_query(once, conds) ==
    LET ar == all_rows(pageCache, cache, htmlId, dom, comp)
        sc == QueryLoop("pageobject", table, ar.rows, conds, once)
    IN  /\ cache' = ar.cache
        /\ op' = TableOp("query", "pageobject", once, conds, ar, sc)
        /\ prev' = NoOp
        /\ UNCHANGED <<driver, config, sinceReset>>

\* PageTable.apply: kept holds the rows the action was called on, in order
PageTable_apply(once, conds) ==
    LET ar == all_rows(pageCache, cache, htmlId, dom, comp)
        sc == ApplyLoop(table, ar.rows, conds, once)
    IN  /\ cache' = ar.cache
        /\ op' = TableOp("apply", "pageobject", once, conds, ar, sc)
        /\ prev' = NoOp
        /\ UNCHANGED <<driver, config, sinceReset>>

\* PageTable.query (pageobj/page_object.py)
pageobj_query(once, conds) ==
    LET ar == find_rows(dom, comp)
        sc == QueryLoop("pageobj", table, ar.rows, conds, once)
    IN  /\ op' = TableOp("query", "pageobj", once, conds, ar, sc)
        /\ prev' = NoOp
        /\ UNCHANGED <<driver, config, cache, sinceReset>>

\* TableBase.search (page_object.py), read to its end by the caller
TableBase_search(once, conds) ==
    LET ar == find_rows(dom, comp)
        sc == QueryLoop("page_object", table, ar.rows, conds, once)
    IN  /\ op' = TableOp("query", "page_object", once, conds, ar, sc)
        /\ prev' = NoOp
        /\ UNCHANGED <<driver, config, cache, sinceReset>>

Paid == Text("Paid", FALSE)
PaidPadded == Text("Paid", TRUE)
Pending == Text("Pending", FALSE)
StatusCells == {Paid, PaidPadded, Pending, NoCell}
NameCells == {Text("a", FALSE), Text("b", FALSE)}
Tables == [Handles -> [status : StatusCells, name : NameCells]]

\* the conditions the tests query with
TableConds ==
    {<<>>,
     <<Literal("status", Paid)>>,
     <<Predicate("status", StatusCells \ {Pending})>>,
     <<Literal("status", Paid), Literal("name", Text("a", FALSE))>>,
     <<Literal("name", Text("b", FALSE)), Predicate("status", {PaidPadded, NoCell})>>}

InitTable ==
    /\ htmlId = 1
    /\ dom = [h \in Handles |-> LiveElem]
    /\ comp = [hash |-> 1, attached |-> TRUE]
    /\ dictDom = [container |-> TRUE, keys |-> [h \in Handles |-> TRUE], multi |-> FALSE]
    /\ op = NoOp
    /\ prev = NoOp
    /\ sinceReset = {}
    /\ kind = "text"
    /\ pageCache \in BOOLEAN
    /\ field = NoField
    /\ instance = CompCtx
    /\ table \in Tables
    /\ decl = NoDecl
    /\ content = NoContent
    /\ inflight = NoCall
    /\ cache = IF pageCache THEN NewCache(htmlId) ELSE NoCache

NextTable ==
    \/ \E h \in Handles : Detach(h)
    \/ DetachContext
    \/ \E once \in BOOLEAN, conds \in TableConds : PageTable_query(once, conds)
    \/ \E once \in BOOLEAN, conds \in TableConds : PageTable_apply(once, conds)
    \/ \E once \in BOOLEAN, conds \in TableConds : pageobj_query(once, conds)
    \/ \E once \in BOOLEAN, conds \in TableConds : TableBase_search(once, conds)

SpecTable == InitTable /\ [][NextTable]_vars

-----------------------------------------------------------------------------
(* Reading one element: _get_element and _convert_element *)

\* what the driver answers about an element: tag_name and get_attribute('type')
Tag(tag, type) == [tag |-> tag, type |-> type]

\* the value a read hands back: a boolean, a text, or None
Val(t, b, txt) == [t |-> t, b |-> b, s |-> txt.s, pad |-> txt.pad]
NoVal == Val("NoneType", FALSE, Text("", FALSE))

\* a select none of whose options is selected
NoOption == Text("None", FALSE)

\* the content of the element: its value attribute, its textContent, and the
\* text of its first selected option
Content(value, text, option) == [value |-> value, text |-> text, option |-> option]

\* a _get_element that returns the text content as it is
get_element_raw(k, c, d, h) ==
    IF k.tag = "select"
    THEN IF c.option = NoOption THEN [exc |-> "NoSuchElementException", v |-> NoVal]
         ELSE [exc |-> "", v |-> Val("str", FALSE, c.option)]
    ELSE IF k.tag = "textarea" THEN [exc |-> "", v |-> Val("str", FALSE, c.value)]
    ELSE IF k.tag = "input" /\ k.type \in {"checkbox", "radio"}
    THEN [exc |-> "", v |-> Val("bool", d[h].selected, Text("", FALSE))]
    ELSE IF k.tag = "input" /\ k.type \in {"text", "number", "url"}
    THEN [exc |-> "", v |-> Val("str", FALSE, c.value)]
    ELSE [exc |-> "", v |-> Val("str", FALSE, c.text)]

\* PageElement._get_element: act is the tag when the tag is a key of actions,
\* else ('input', type) for an input with a type, else 'default'; a key
\* actions does not hold is 'default' too
get_element(k, c, d, h) ==
    IF k.tag = "select"
    \* Select(e).first_selected_option raises when no option is selected
    THEN IF c.option = NoOption THEN [exc |-> "NoSuchElementException", v |-> NoVal]
         ELSE [exc |-> "", v |-> Val("str", FALSE, c.option)]
    ELSE IF k.tag = "textarea" THEN [exc |-> "", v |-> Val("str", FALSE, c.value)]
    ELSE IF k.tag = "input" /\ k.type \in {"checkbox", "radio"}
    THEN [exc |-> "", v |-> Val("bool", d[h].selected, Text("", FALSE))]
    ELSE IF k.tag = "input" /\ k.type \in {"text", "number", "url"}
    THEN [exc |-> "", v |-> Val("str", FALSE, c.value)]
    ELSE [exc |-> "", v |-> Val("str", FALSE, Strip(c.text))]

\* the configuration of a descriptor that decides what a read returns
Reading(component, value_only, read_hook) ==
    [component |-> component, value_only |-> value_only, read_hook |-> read_hook]

\* what a read returns: a component cast of handle h, a value, the element
\* itself or a Select around it; hooks counts the calls of read_hook on it
Result(as, h, v) == [as |-> as, h |-> h, v |-> v, hooks |-> 0]
NoResult == Result("None", 0, NoVal)

\* PageElement._convert_element with its component, value_only and read_hook
convert_element_of(cfg, k, c, d, h) ==
    LET ge == get_element(k, c, d, h)
        result == IF cfg.component THEN Result("component", h, NoVal)
                  ELSE IF cfg.value_only THEN Result("value", 0, ge.v)
                  ELSE IF k.tag = "select" THEN Result("Select", h, NoVal)
                  ELSE Result("WebElement", h, NoVal)
    IN  IF ~cfg.component /\ cfg.value_only /\ ge.exc # ""
        THEN [exc |-> ge.exc, result |-> NoResult]
        ELSE [exc |-> "",
              result |-> IF cfg.read_hook THEN [result EXCEPT !.hooks = @ + 1]
                         ELSE result]

\* PageElement.__get__ of a descriptor with configuration decl, no cache:
\* _find_element, _convert_element, "except Exception: return None"
PageElement_read(ctx, f) ==
    LET fd == find(f, ctx, dom, comp, FALSE)
        cv == convert_element_of(decl, kind, content, dom, fd.hs[1])
    IN  /\ op' = [kind |-> "get", cls |-> f.cls, found |-> fd.exc,
                  hs |-> fd.hs, matched |-> Len(Matching(dom, f.loc)),
                  raised |-> IF fd.exc # "" THEN fd.exc ELSE cv.exc,
                  result |-> IF fd.exc # "" THEN NoResult ELSE cv.result]
        /\ prev' = IF op.kind = "get" THEN [kind |-> "get", result |-> op.result]
                   ELSE NoOp
        /\ UNCHANGED <<driver, config, cache, sinceReset>>

\* a script, or the user, changes the element: what it holds, or its state
Mutate(c) ==
    /\ c # content
    /\ content' = c
    /\ op' = NoOp
    /\ prev' = NoOp
    /\ UNCHANGED <<driver, pageCache, field, instance, table, decl, inflight, cache, sinceReset>>

Select(h) ==
    /\ Attached(dom, h)
    /\ dom' = [dom EXCEPT ![h].selected = ~@]
    /\ op' = NoOp
    /\ prev' = NoOp
    /\ UNCHANGED <<htmlId, kind, comp, dictDom, config, cache, sinceReset>>

ReadKinds ==
    {Tag("select", "select-one"), Tag("textarea", "textarea"), Tag("div", ""),
     Tag("input", "checkbox"), Tag("input", "radio"), Tag("input", "text"),
     Tag("input", "number"), Tag("input", "url"), Tag("input", "password")}
Texts == {Text("a", FALSE), Text("a", TRUE)}
Contents ==
    {Content(v, t, o) : v \in Texts, t \in Texts, o \in {NoOption, Text("b", FALSE)}}
Readings == {Reading(c, v, r) : c, v, r \in BOOLEAN}

InitRead ==
    /\ htmlId = 1
    /\ \E n \in Handles :
          dom = [h \in Handles |-> IF h <= n THEN LiveElem ELSE GoneElem]
    /\ comp = [hash |-> 1, attached |-> TRUE]
    /\ dictDom = [container |-> TRUE, keys |-> [h \in Handles |-> TRUE], multi |-> FALSE]
    /\ op = NoOp
    /\ prev = NoOp
    /\ sinceReset = {}
    /\ table = NoTable
    /\ kind \in ReadKinds
    /\ content \in Contents
    /\ inflight = NoCall
    /\ decl \in Readings
    /\ pageCache = FALSE
    /\ field = Field("PageElement", "s", FALSE, 0, FALSE)
    /\ instance = PageCtx
    /\ cache = NoCache

NextRead ==
    \/ PageElement_read(instance, field)
    \/ \E c \in Contents : Mutate(c)
    \/ \E h \in Handles : Select(h)
    \/ \E h \in Handles : Detach(h)

SpecRead == InitRead /\ [][NextRead]_vars

-----------------------------------------------------------------------------
(* Templated fields: the callable a read returns, and its invocations *)

\* a selector with holes placeholders "{}", and the locator format(*p) makes
\* of it: the placeholders filled with the first holes parameters
Template(text, holes) == [text |-> text, holes |-> holes]
Locator(text, args) == [text |-> text, args |-> args]
NoLocator == Locator("", <<>>)

\* a format that fills no placeholder
format_blank(template, p) ==
    IF Len(p) < template.holes THEN [exc |-> "IndexError", loc |-> NoLocator]
    ELSE [exc |-> "", loc |-> Locator(template.text, <<>>)]

\* self._locator[1].format(*parameters): parameters past the placeholders are
\* ignored, a placeholder without a parameter is an IndexError
format(template, p) ==
    IF Len(p) < template.holes THEN [exc |-> "IndexError", loc |-> NoLocator]
    ELSE [exc |-> "", loc |-> Locator(template.text, SubSeq(p, 1, template.holes))]

\* driver: the elements a solid locator matches, in DOM order: the element
\* whose number fills the placeholder, or every element when there is none
ElementsAt(d, loc) ==
    LET here(h) == Attached(d, h) /\ (loc.args = <<>> \/ loc.args[1] = h)
    IN SelectSeq(AllHandles, here)

\* instance.context.find_element(*locator) of a field with timeout 0
find_element(d, loc) ==
    IF ElementsAt(d, loc) = <<>> THEN Found("NoSuchElementException", <<>>, 0, 1)
    ELSE Found("", <<ElementsAt(d, loc)[1]>>, 0, 1)

\* what __get__ of a template returns: "lambda *p: self._fetch_element(...)"
Callable == [shape |-> "function", hs |-> <<>>, items |-> <<>>]

\* PageElementTemplate.__get__
PageElementTemplate_get(ctx, f) ==
    /\ op' = [kind |-> "get", cls |-> f.cls, p |-> <<>>, loc |-> NoLocator,
              exc |-> "", result |-> Callable, hit |-> FALSE, fetches |-> 0]
    /\ prev' = NoOp
    /\ UNCHANGED <<driver, config, cache, sinceReset>>

\* PageElementTemplate._fetch_element: the callable is invoked with p.  The
\* locator is formatted before the try, the rest is inside it
PageElementTemplate_call(ctx, f, p) ==
    LET fm == format(f.loc, p)
        rc == read_cache(f, ctx, fm.loc, pageCache, cache, htmlId, dom, comp)
        hit == rc.result # Miss
        fd == find_element(dom, fm.loc)
        bad == fm.exc # ""
    IN  /\ cache' = IF bad THEN cache
                    ELSE IF hit \/ fd.exc # "" THEN rc.cache
                    ELSE write_cache(f, ctx, fm.loc, pageCache, rc.cache, htmlId, comp,
                                     One(fd.hs[1]))
        /\ op' = [kind |-> "call", cls |-> f.cls, p |-> p, loc |-> fm.loc,
                  exc |-> fm.exc,
                  result |-> IF bad THEN None
                             ELSE IF hit THEN convert_element(rc.result)
                             ELSE IF fd.exc = "" THEN convert_element(One(fd.hs[1]))
                             ELSE None,
                  hit |-> ~bad /\ hit,
                  fetches |-> IF bad \/ hit THEN 0 ELSE fd.fetches]
        /\ prev' = IF op.kind = "call" THEN op ELSE NoOp
        /\ UNCHANGED <<driver, config, sinceReset>>

Templates == {Template("row", 0), Template("row-{}", 1)}
Parameters == {<<>>, <<1>>, <<2>>, <<1, 1>>, <<1, 2>>}

InitTemplate ==
    /\ InitDriver
    /\ kind = "text"
    /\ pageCache \in BOOLEAN
    /\ \E t \in Templates, ec \in BOOLEAN :
          field = Field("PageElementTemplate", t, ec, 0, FALSE)
    /\ instance = PageCtx
    /\ cache = IF pageCache THEN NewCache(htmlId) ELSE NoCache

NextTemplate ==
    \/ \E h \in Handles : Detach(h)
    \/ PageElementTemplate_get(instance, field)
    \/ \E p \in Parameters : PageElementTemplate_call(instance, field, p)

SpecTemplate == InitTemplate /\ [][NextTemplate]_vars

-----------------------------------------------------------------------------
(* Pages and components as classes: pageconfig, the strategy of a locator,  *)
(* the timeout of a wait, nextpage                                          *)

\* By.ID
ById == "id"
\* by=None, or any empty strategy
NoBy == ""

\* The classes pageconfig decorates: a page, a component on it and a component
\* inside that component.  One PageElementDict is declared for the inner
\* component, in its own body or (inherited) in a base class left undecorated.
PageClasses == {"page", "parent", "comp"}

\* what a class declaration holds.  given_by and default_by are history: the
\* by the descriptor was built with and the default_by pageconfig installed on
\* the class that declares it
Decl(by, item_by, key_by, value_by, inherited) ==
    [by |-> by, item_by |-> item_by, key_by |-> key_by, value_by |-> value_by,
     inherited |-> inherited, given_by |-> by, default_by |-> NoBy,
     configured |-> {}, timeout |-> [c \in PageClasses |-> 0]]

\* decorators.pageconfig(default_by, timeout) applied to class c: "for attr in
\* c.__dict__.values(): if isinstance(attr, PageElement) and default_by and
\* not attr.by: attr.by = default_by", then "if timeout: c._timeout = timeout"
pageconfig(d, c, default_by, timeout) ==
    LET own == c = "comp" /\ ~d.inherited IN
    [d EXCEPT !.by = IF own /\ default_by # NoBy /\ d.by = NoBy THEN default_by ELSE @,
              !.default_by = IF own THEN default_by ELSE @,
              !.configured = @ \cup {c},
              !.timeout[c] = IF timeout # 0 THEN timeout ELSE @]

\* a or b of Python, on strategies
OrBy(a, b) == IF a # NoBy THEN a ELSE b

\* PageElement._locator: "self.by or By.ID"
locator_by(d) == OrBy(d.by, ById)

\* a _loc that never looks at the by of the dictionary
loc_by_own(d, by) == OrBy(by, ById)

\* PageElementDict._loc: "by or self.by or By.ID"
loc_by(d, by) == OrBy(by, OrBy(d.by, ById))

Locators == {"_locator", "item_loc", "key_loc", "value_loc"}

\* the strategy of PageElement._locator and of PageElementDict.item_loc,
\* key_loc and value_loc
StrategyOf(d, which) ==
    IF which = "_locator" THEN locator_by(d)
    ELSE IF which = "item_loc" THEN loc_by(d, d.item_by)
    ELSE IF which = "key_loc" THEN loc_by(d, d.key_by)
    ELSE loc_by(d, d.value_by)

a_or_b(a, b) == IF a # 0 THEN a ELSE b

\* WaitMixin.timeout of instance x: "self._timeout or self.page._timeout"
WaitMixin_timeout(d, x) == a_or_b(d.timeout[x], d.timeout["page"])

\* a wait that traps, with ignore_timeout, whatever the condition raised
wait_trap_all(d, x, timeout, ignore_timeout, raised) ==
    [used |-> a_or_b(timeout, WaitMixin_timeout(d, x)),
     exc |-> IF ignore_timeout THEN "" ELSE raised]

\* WaitMixin.wait on instance x: WebDriverWait(self.page, timeout or
\* self.timeout).until(condition) raised `raised` ("" when the condition came
\* true); "except TimeoutException: if ignore_timeout: ... else: raise e"
wait(d, x, timeout, ignore_timeout, raised) ==
    [used |-> a_or_b(timeout, WaitMixin_timeout(d, x)),
     exc |-> IF raised = "TimeoutException" /\ ignore_timeout THEN "" ELSE raised]

\* the wait_*_after methods of WaitMixin
WaitAfters ==
    {"wait_page_loaded_after", "wait_element_displayed_after",
     "wait_element_disappeared_after", "wait_element_changed_after",
     "wait_ajax_after", "wait_http_request_after"}

\* the context a wait_*_after of instance x hands its wait object: self.page
\* for the page, AJAX and HTTP waits, self for the element waits
WaitContext(x, what) ==
    IF what \in {"wait_page_loaded_after", "wait_ajax_after", "wait_http_request_after"}
    THEN "page" ELSE x

\* BaseWaitAfter.timeout: "self._timeout or self.context.timeout"
BaseWaitAfter_timeout(d, ctx, timeout) == a_or_b(timeout, WaitMixin_timeout(d, ctx))

\* an __exit__ that lets no TimeoutException out
BaseWaitAfter_exit_quiet(d, ctx, timeout, ignore_timeout, raised) ==
    LET w == wait(d, ctx, BaseWaitAfter_timeout(d, ctx, timeout), FALSE, raised) IN
    [used |-> w.used,
     exc |-> IF w.exc = "TimeoutException" THEN "" ELSE w.exc]

\* BaseWaitAfter.__exit__: _exit_action calls self.context.wait(condition,
\* self.timeout); "if isinstance(e, TimeoutException) and self.ignore_timeout"
\* the exception ends here, else "raise e"
BaseWaitAfter_exit(d, ctx, timeout, ignore_timeout, raised) ==
    LET w == wait(d, ctx, BaseWaitAfter_timeout(d, ctx, timeout), FALSE, raised) IN
    [used |-> w.used,
     exc |-> IF w.exc = "TimeoutException" /\ ignore_timeout THEN "" ELSE w.exc]

\* what WebDriverWait.until can end with
WaitOutcomes == {"", "TimeoutException", "WebDriverException"}

\* the history record of a wait
WaitOp(what, x, timeout, ignore_timeout, raised, r) ==
    [kind |-> "wait", what |-> what, on |-> x, timeout |-> timeout,
     ignore_timeout |-> ignore_timeout, raised |-> raised,
     used |-> r.used, exc |-> r.exc]

\* the parameter of nextpage: a class path, a dict of token -> class path, a
\* callable on the token, or something else
NameStr(path) == [type |-> "str", path |-> path, kvs |-> <<>>]
NameDict(kvs) == [type |-> "dict", path |-> NoneV, kvs |-> kvs]
NameCallable(kvs) == [type |-> "function", path |-> NoneV, kvs |-> kvs]
NameOther == [type |-> "int", path |-> NoneV, kvs |-> <<>>]

\* dict.get(key, default)
dict_get(kvs, key, default) ==
    IF \E j \in DOMAIN kvs : kvs[j].k = key
    THEN kvs[CHOOSE j \in DOMAIN kvs : kvs[j].k = key].v
    ELSE default

\* a choice of the page that never looks at '__default__'
page_name_nodefault(name, token) ==
    IF name.type = "str" THEN [exc |-> "", v |-> name.path]
    ELSE IF name.type = "dict" THEN [exc |-> "", v |-> dict_get(name.kvs, token, NoneV)]
    ELSE IF name.type = "function" THEN [exc |-> "", v |-> dict_get(name.kvs, token, NoneV)]
    ELSE [exc |-> "RuntimeError", v |-> NoneV]

\* decorators.py 35-47: page_name, by the type of name.  A callable is given by
\* the pairs token -> value it computes; it returns None for other tokens
page_name(name, token) ==
    IF name.type = "str" THEN [exc |-> "", v |-> name.path]
    ELSE IF name.type = "dict"
    THEN [exc |-> "",
          v |-> dict_get(name.kvs, token, dict_get(name.kvs, StrV("__default__"), NoneV))]
    ELSE IF name.type = "function" THEN [exc |-> "", v |-> dict_get(name.kvs, token, NoneV)]
    ELSE [exc |-> "RuntimeError", v |-> NoneV]

\* the page classes that can be imported, and those with an on_enter hook
Importable == {"pages.Home", "pages.Admin", "pages.Login"}
WithOnEnter == {"pages.Home"}

NoPage == [cls |-> "", drv |-> ""]

\* PageObject.changepage: next_page.rsplit('.', 1) unpacked into path and cls
\* (ValueError without a dot), import_module, getattr, cls(drv)
changepage(next_page, drv) ==
    IF next_page \in Importable THEN [exc |-> "", page |-> [cls |-> next_page, drv |-> drv]]
    ELSE [exc |-> "ValueError", page |-> NoPage]

\* decorators.nextpage: change_page(instance) for a caller of class `caller`
\* whose page drives drv, the action returning token
change_page(name, caller, drv, token) ==
    LET pn == page_name(name, token)
        cp == changepage(pn.v.s, drv)
    IN  IF pn.exc # "" THEN [exc |-> pn.exc, page |-> NoPage, entered |-> FALSE]
        ELSE IF pn.v.t # "str" THEN [exc |-> "RuntimeError", page |-> NoPage, entered |-> FALSE]
        ELSE IF caller \notin {"PageObject", "PageComponent"}
        THEN [exc |-> "TypeError", page |-> NoPage, entered |-> FALSE]
        ELSE IF cp.exc # "" THEN [exc |-> cp.exc, page |-> NoPage, entered |-> FALSE]
        ELSE [exc |-> "", page |-> cp.page, entered |-> cp.page.cls \in WithOnEnter]

PageStep ==
    UNCHANGED <<driver, pageCache, field, instance, table, content, inflight, cache, sinceReset>>

\* a class is decorated, once
Pageconfig(c, default_by, timeout) ==
    /\ c \notin decl.configured
    /\ decl' = pageconfig(decl, c, default_by, timeout)
    /\ op' = NoOp
    /\ prev' = NoOp
    /\ PageStep

\* a locator of the dictionary is read
Locate(which) ==
    /\ op' = [kind |-> "locate", which |-> which, by |-> StrategyOf(decl, which)]
    /\ prev' = NoOp
    /\ UNCHANGED decl
    /\ PageStep

\* instance x waits: x.wait(condition, timeout, ignore_timeout)
Wait(x, timeout, ignore_timeout, raised) ==
    /\ op' = WaitOp("wait", x, timeout, ignore_timeout, raised,
                    wait(decl, x, timeout, ignore_timeout, raised))
    /\ prev' = NoOp
    /\ UNCHANGED decl
    /\ PageStep

\* the end of "with x.wait_..._after(timeout, ignore_timeout):"
WaitAfter(what, x, timeout, ignore_timeout, raised) ==
    /\ op' = WaitOp(what, x, timeout, ignore_timeout, raised,
                    BaseWaitAfter_exit(decl, WaitContext(x, what), timeout,
                                       ignore_timeout, raised))
    /\ prev' = NoOp
    /\ UNCHANGED decl
    /\ PageStep

\* a method decorated with nextpage(name) is called
NextPage(name, caller, drv, token) ==
    LET r == change_page(name, caller, drv, token) IN
    /\ op' = [kind |-> "nextpage", name |-> name, caller |-> caller, drv |-> drv,
              token |-> token, log |-> <<"action">> \o
                  (IF r.page # NoPage THEN <<"changepage">> ELSE <<>>) \o
                  (IF r.entered THEN <<"on_enter">> ELSE <<>>),
              exc |-> r.exc, page |-> r.page]
    /\ prev' = NoOp
    /\ UNCHANGED decl
    /\ PageStep

\* the timeout pageconfig gives each class, and the timeouts passed to a wait
ClassTimeout == [page |-> 30, parent |-> 20, comp |-> 10]
PassedTimeouts == {0, 5}
DefaultBys == {NoBy, "link text"}
Ok == StrV("ok")
Tokens == {Ok, StrV("other"), NoneV}
Names ==
    {NameStr(StrV("pages.Home")), NameStr(StrV("Home")),
     NameDict(<<KV(Ok, StrV("pages.Admin")), KV(StrV("__default__"), StrV("pages.Login"))>>),
     NameDict(<<KV(Ok, BoolV(TRUE))>>),
     NameCallable(<<KV(Ok, StrV("pages.Home")), KV(NoneV, StrV("pages.Admin"))>>),
     NameCallable(<<KV(Ok, BoolV(FALSE))>>),
     NameOther}
Callers == {"PageObject", "PageComponent", "WebElement"}
Drivers == {"chrome", "firefox"}

\* the state the three specifications below leave alone
InitPage ==
    /\ htmlId = 1
    /\ dom = [h \in Handles |-> LiveElem]
    /\ comp = [hash |-> 1, attached |-> TRUE]
    /\ dictDom = [container |-> TRUE, keys |-> [h \in Handles |-> TRUE], multi |-> FALSE]
    /\ op = NoOp
    /\ prev = NoOp
    /\ sinceReset = {}
    /\ table = NoTable
    /\ content = NoContent
    /\ inflight = NoCall
    /\ kind = "text"
    /\ pageCache = FALSE
    /\ field = NoField
    /\ instance = PageCtx
    /\ cache = NoCache

Decorate ==
    \E c \in PageClasses, by \in DefaultBys :
        \E t \in {0, ClassTimeout[c]} : Pageconfig(c, by, t)

\* classes are decorated and the locators of the dictionary are read
InitStrategy ==
    /\ InitPage
    /\ \E by \in {NoBy, "css selector"}, item_by, key_by, value_by \in {NoBy, "xpath"},
          inherited \in BOOLEAN :
          decl = Decl(by, item_by, key_by, value_by, inherited)

NextStrategy ==
    \/ Decorate
    \/ \E which \in Locators : Locate(which)

SpecStrategy == InitStrategy /\ [][NextStrategy]_vars

\* classes are decorated and their instances wait
InitWait ==
    /\ InitPage
    /\ decl = Decl(NoBy, NoBy, NoBy, NoBy, FALSE)

NextWait ==
    \/ Decorate
    \/ \E x \in PageClasses, t \in PassedTimeouts, i \in BOOLEAN, r \in WaitOutcomes :
          Wait(x, t, i, r)
    \/ \E what \in WaitAfters, x \in PageClasses, t \in PassedTimeouts, i \in BOOLEAN,
          r \in WaitOutcomes : WaitAfter(what, x, t, i, r)

SpecWait == InitWait /\ [][NextWait]_vars

\* methods decorated with nextpage are called
InitNextPage ==
    /\ InitPage
    /\ decl = NoDecl

NextNextPage ==
    \E name \in Names, caller \in Callers, drv \in Drivers, token \in Tokens :
        NextPage(name, caller, drv, token)

SpecNextPage == InitNextPage /\ [][NextNextPage]_vars

-----------------------------------------------------------------------------
(* The driver calls of a lookup: PageElement._find, call by call *)

\* a _find that fetches whatever the wait did
find_calls_eager(f, ctx, d, cmp) ==
    (IF f.timeout # 0 THEN <<"until">> ELSE <<>>) \o <<"find">>

\* the calls _find makes on the driver, in order: "until" is
\* WebDriverWait(...).until(visibility_of_element_located(loc)), "find" is
\* func(*loc)
find_calls(f, ctx, d, cmp) ==
    LET m == Matching(d, f.loc)
        visible == ~(ctx = CompCtx /\ ~cmp.attached) /\ m # <<>> /\ Displayed(d, m[1])
        waited == IF f.timeout # 0 THEN <<"until">> ELSE <<>>
    IN  IF f.timeout # 0 /\ ~visible /\ ~f.ignore_visibility
        \* "raise e": func is never called
        THEN waited
        ELSE waited \o <<"find">>

\* _find_element (many = FALSE) and _find_elements (many = TRUE)
PageElement_find(ctx, f, many) ==
    LET fd == find(f, ctx, dom, comp, many) IN
    /\ op' = [kind |-> "find", many |-> many, exc |-> fd.exc, hs |-> fd.hs,
              calls |-> find_calls(f, ctx, dom, comp), was |-> dom]
    /\ prev' = NoOp
    /\ UNCHANGED <<driver, config, cache, sinceReset>>

InitFind ==
    /\ InitDriver
    /\ kind = "text"
    /\ pageCache = FALSE
    /\ field \in {Field("PageElement", "s", FALSE, w[1], w[2]) : w \in WaitModes}
    /\ instance \in ContextIds
    /\ cache = NoCache

NextFind ==
    \/ \E h \in Handles : Detach(h)
    \/ \E h \in Handles : SetDisplayed(h)
    \/ instance = CompCtx /\ DetachContext
    \/ \E many \in BOOLEAN : PageElement_find(instance, field, many)

SpecFind == InitFind /\ [][NextFind]_vars

-----------------------------------------------------------------------------
(* "with page.wait_page_loaded_after(...):" step by step.  WebDriverWait     *)
(* evaluates its condition, returns when it is true, and raises              *)
(* TimeoutException when it is false and the time is up; the time of a wait  *)
(* is counted in evaluations after the first.                                *)

\* the block: where it is, what __enter__ kept, and what the waits have seen.
\* ready is what the driver answers to document.readyState == "complete"
Block(ver, timeout, ignore_timeout, at, old, left, ready, log, exc) ==
    [ver |-> ver, timeout |-> timeout, ignore_timeout |-> ignore_timeout,
     at |-> at, old |-> old, left |-> left, ready |-> ready, log |-> log, exc |-> exc]

\* the timeout the waits of the block run with: self.timeout of the wait
\* object, and the constant of the earlier WaitPageLoaded
BlockTimeout(b) ==
    IF b.ver = "pageobject" THEN BaseWaitAfter_timeout(decl, "page", b.timeout)
    ELSE b.timeout

BlockStep ==
    /\ op' = NoOp
    /\ prev' = NoOp
    /\ UNCHANGED <<dom, kind, comp, dictDom, pageCache, field, instance, table, decl,
                   content, cache, sinceReset>>

\* WaitPageLoadedAfter.__enter__ / WaitPageLoaded.__enter__: the id of <html>
\* is kept
Enter(ver, timeout, ignore_timeout) ==
    /\ inflight = NoCall \/ inflight.at = "done"
    /\ inflight' = Block(ver, timeout, ignore_timeout, "body", htmlId, 0, TRUE, <<>>, "")
    /\ UNCHANGED htmlId
    /\ BlockStep

\* the browser starts on another document
Navigate(r) ==
    /\ inflight # NoCall /\ inflight.at # "done"
    /\ r # htmlId
    /\ htmlId' = r
    /\ inflight' = [inflight EXCEPT !.ready = FALSE]
    /\ BlockStep

\* the document is complete
Loaded ==
    /\ inflight # NoCall /\ inflight.at # "done"
    /\ ~inflight.ready
    /\ inflight' = [inflight EXCEPT !.ready = TRUE]
    /\ UNCHANGED htmlId
    /\ BlockStep

\* the body of the block ends: __exit__ calls _exit_action, the first wait
\* starts
Leave ==
    /\ inflight # NoCall /\ inflight.at = "body"
    /\ inflight' = [inflight EXCEPT !.at = "root", !.left = BlockTimeout(inflight)]
    /\ UNCHANGED htmlId
    /\ BlockStep

\* how the block ends when a wait raised TimeoutException: through
\* BaseWaitAfter.__exit__, or straight to the caller in the earlier class
Raised(b) ==
    IF b.ver = "pageobject"
    THEN BaseWaitAfter_exit(decl, "page", b.timeout, b.ignore_timeout,
                            "TimeoutException").exc
    ELSE "TimeoutException"

\* one evaluation of "old != find_element_by_tag_name('html').id"
PollRoot ==
    /\ inflight # NoCall /\ inflight.at = "root"
    /\ inflight' =
          IF inflight.old # htmlId
          THEN [inflight EXCEPT !.at = "ready", !.log = @ \o <<"changed">>,
                                !.left = BlockTimeout(inflight)]
          ELSE IF inflight.left = 0
          THEN [inflight EXCEPT !.at = "done", !.exc = Raised(inflight)]
          ELSE [inflight EXCEPT !.left = @ - 1]
    /\ UNCHANGED htmlId
    /\ BlockStep

\* one evaluation of execute_script('return document.readyState == "complete";')
PollReady ==
    /\ inflight # NoCall /\ inflight.at = "ready"
    /\ inflight' =
          IF inflight.ready
          THEN [inflight EXCEPT !.at = "done", !.log = @ \o <<"complete">>]
          ELSE IF inflight.left = 0
          THEN [inflight EXCEPT !.at = "done", !.exc = Raised(inflight)]
          ELSE [inflight EXCEPT !.left = @ - 1]
    /\ UNCHANGED htmlId
    /\ BlockStep

BlockVersions == {"pageobject", "pageobj"}
\* timeouts in evaluations
BlockTimeouts == {0, 1}
PageTimeouts == {0, 2}

InitBlock ==
    /\ InitPage
    /\ \E t \in PageTimeouts :
          decl = pageconfig(Decl(NoBy, NoBy, NoBy, NoBy, FALSE), "page", NoBy, t)

NextBlock ==
    \/ \E ver \in BlockVersions, t \in BlockTimeouts, i \in BOOLEAN :
          (ver = "pageobj" => ~i) /\ Enter(ver, t, i)
    \/ \E r \in RootIds : Navigate(r)
    \/ Loaded
    \/ Leave
    \/ PollRoot
    \/ PollReady

SpecBlock == InitBlock /\ [][NextBlock]_vars

-----------------------------------------------------------------------------
(* Two descriptors of one class body with the same strategy and locator text, *)
(* one PageElement and one PageElements, both with enable_cache               *)

SharedSingle == Field("PageElement", "s", TRUE, 0, FALSE)
SharedMulti == Field("PageElements", "s", TRUE, 0, FALSE)

InitShared ==
    /\ InitDriver
    /\ kind = "text"
    /\ pageCache = TRUE
    /\ field = NoField
    /\ instance \in ContextIds
    /\ cache = NewCache(htmlId)

NextShared ==
    \/ \E r \in RootIds : ChangeRoot(r)
    \/ \E h \in Handles : Detach(h)
    \/ \E h \in Handles : SetDisplayed(h)
    \/ \E x \in Hashes : instance = CompCtx /\ ChangeMarkup(x)
    \/ PageElement_get(instance, SharedSingle)
    \/ PageElements_get(instance, SharedMulti)

SpecShared == InitShared /\ [][NextShared]_vars

-----------------------------------------------------------------------------
(* PageElement.__get__ in two steps, the browser free to act between the     *)
(* lookup and the write to the cache that follows it                         *)

\* the read in progress: the element found and the root it was found under
Fetched(at, elements, root) == [at |-> at, elements |-> elements, root |-> root]

RaceStep ==
    /\ op' = NoOp
    /\ prev' = NoOp
    /\ UNCHANGED <<driver, pageCache, field, instance, table, decl, content, sinceReset>>

\* "element = self._read_cache(instance); if element is None: element =
\* self._find_element(instance, self._locator)"
ReadOrFind(ctx, f) ==
    LET rc == read_cache(f, ctx, f.loc, pageCache, cache, htmlId, dom, comp)
        fd == find(f, ctx, dom, comp, FALSE)
    IN  /\ inflight.at # "fetched"
        /\ cache' = rc.cache
        /\ inflight' = IF rc.result # Miss THEN Fetched("hit", rc.result, htmlId)
                       ELSE IF fd.exc # "" THEN Fetched("raised", None, htmlId)
                       ELSE Fetched("fetched", One(fd.hs[1]), htmlId)
        /\ RaceStep

\* "self._write_cache(instance, element)", and the return
Store(ctx, f) ==
    /\ inflight.at = "fetched"
    /\ cache' = write_cache(f, ctx, f.loc, pageCache, cache, htmlId, comp, inflight.elements)
    /\ inflight' = [inflight EXCEPT !.at = "stored"]
    /\ RaceStep

InitRace ==
    /\ InitDriver
    /\ kind = "text"
    /\ pageCache = TRUE
    /\ field = Field("PageElement", "s", TRUE, 0, FALSE)
    /\ instance \in ContextIds
    /\ cache = NewCache(htmlId)

NextRace ==
    \/ \E r \in RootIds : ChangeRoot(r)
    \/ \E h \in Handles : Detach(h)
    \/ \E h \in Handles : SetDisplayed(h)
    \/ instance = CompCtx /\ DetachContext
    \/ ReadOrFind(instance, field)
    \/ Store(instance, field)

SpecRace == InitRace /\ [][NextRace]_vars

-----------------------------------------------------------------------------
(* A script rewrites the DOM in place, under a field of the page or of a     *)
(* component                                                                 *)

\* the markup of the document, and with it the outerHTML of the component in
\* it, is another; no handle is touched and the root stays.  from is the
\* markup the last call of the field met
Rewrite(x) ==
    /\ comp.attached
    /\ x # comp.hash
    /\ comp' = [comp EXCEPT !.hash = x]
    /\ op' = [kind |-> "rewrite",
              from |-> IF op.kind = "rewrite" THEN op.from ELSE comp.hash]
    /\ prev' = NoOp
    /\ UNCHANGED <<htmlId, dom, kind, dictDom, config, cache, sinceReset>>

InitRewrite ==
    /\ InitDriver
    /\ kind \in Kinds
    /\ pageCache = TRUE
    /\ field \in {Field("PageElement", "s", TRUE, 0, FALSE),
                  Field("PageElements", "s", TRUE, 0, FALSE)}
    /\ instance \in ContextIds
    /\ cache = NewCache(htmlId)

NextRewrite ==
    \/ \E x \in Hashes : Rewrite(x)
    \/ PageElement_get(instance, field)
    \/ PageElements_get(instance, field)

SpecRewrite == InitRewrite /\ [][NextRewrite]_vars

-----------------------------------------------------------------------------
(* A dictionary declared with enable_cache=True on a page with enable_cache  *)

\* the field of the declaration "PageElementDict(..., enable_cache=True)"
CachedDict == PageElementDict("s", 0, FALSE, TRUE)

InitDictCache ==
    /\ InitDriver
    /\ kind \in Kinds
    /\ pageCache = TRUE
    /\ field = CachedDict
    /\ instance \in ContextIds
    /\ cache = NewCache(htmlId)

NextDictCache ==
    \/ \E h \in Handles : Detach(h)
    \/ ToggleContainer
    \/ \E h \in Handles : ToggleKey(h)
    \/ Regroup
    \/ PageElementDict_get(instance, field)

SpecDictCache == InitDictCache /\ [][NextDictCache]_vars

-----------------------------------------------------------------------------
(* PageObject(drv): the page is constructed from a driver, and its fields    *)
(* are read afterwards                                                       *)

\* what a class, or the driver, says of the attribute enable_cache
Undefined == "undefined"
AttrValues == {Undefined, "True", "False"}

\* the page class and the driver it is about to wrap
PageClass(cls, drv) == [enable_cache |-> cls, driver_enable_cache |-> drv]

\* PageBase.__getattr__, reached when the instance and its classes have no
\* such attribute: the attribute of the wrapped driver, or AttributeError
PageBase_getattr(d) ==
    IF d.driver_enable_cache = Undefined THEN [exc |-> "AttributeError", value |-> Undefined]
    ELSE [exc |-> "", value |-> d.driver_enable_cache]

\* self.enable_cache on a page: the class attribute first, __getattr__ after
page_enable_cache(d) ==
    IF d.enable_cache # Undefined THEN [exc |-> "", value |-> d.enable_cache]
    ELSE PageBase_getattr(d)

\* the constructor has returned, or raised
Constructed(exc) == [at |-> "done", call |-> "PageObject.__init__", exc |-> exc]

\* PageObject.__init__: "self.cache = PageElementCache(self) if
\* self.enable_cache else None"
PageObject_init ==
    LET a == page_enable_cache(decl)
        on == a.exc = "" /\ a.value = "True"
    IN  /\ inflight = NoCall
        /\ inflight' = Constructed(a.exc)
        /\ pageCache' = on
        /\ cache' = IF on THEN NewCache(htmlId) ELSE NoCache
        /\ op' = [kind |-> "init", exc |-> a.exc]
        /\ prev' = NoOp
        /\ UNCHANGED <<driver, field, instance, table, decl, content, sinceReset>>

\* there is a page to read a field of
PageBuilt == inflight # NoCall /\ inflight.exc = ""

InitConstruct ==
    /\ InitPage
    /\ \E cls \in AttrValues, drv \in AttrValues : decl = PageClass(cls, drv)

NextConstruct ==
    \/ PageObject_init
    \/ \E r \in RootIds : PageBuilt /\ ChangeRoot(r)
    \/ \E h \in Handles : PageBuilt /\ Detach(h)
    \/ \E h \in Handles : PageBuilt /\ SetDisplayed(h)
    \/ PageBuilt /\ PageElement_get(PageCtx, SharedSingle)
    \/ PageBuilt /\ PageElements_get(PageCtx, SharedMulti)

SpecConstruct == InitConstruct /\ [][NextConstruct]_vars

-----------------------------------------------------------------------------
(* Claims about the cache *)

Live(d, h) == Attached(d, h) /\ Enabled(d, h) /\ Displayed(d, h)

IsCacheCall == op.kind \in {"cache.read", "cache.write"}
IsCacheRead == op.kind = "cache.read"
\* the read found an entry under its key, the root being the recorded one
ReadFoundEntry == IsCacheRead /\ ~op.rootChanged /\ op.pre # NoEntry

\* C1: when the root identity differs from the recorded one, the next read or
\* write leaves no earlier entry in the cache, a read then reports a miss, and
\* a read that returns handles returns handles written since that call.
C1_RootChangeIsColdMiss ==
    /\ (IsCacheCall /\ op.rootChanged) =>
          /\ DOMAIN cache.cache = (IF op.kind = "cache.write" THEN {op.key} ELSE {})
          /\ cache.current_page_id = htmlId
          /\ IsCacheRead => op.result = Miss
    /\ (IsCacheRead /\ op.result # Miss) =>
          /\ op.key \in sinceReset
          /\ ~op.rootChanged

\* C1 witness: a read under a new root of a key whose entry would have been
\* served had the root not changed
C1_Witness ==
    /\ IsCacheRead /\ op.rootChanged
    /\ op.pre # NoEntry
    /\ op.pre.context_hash = op.hash
    /\ \A h \in HandlesOf(op.pre.elements) : Live(dom, h)
    /\ op.result = Miss

\* C3: a read of a list or dict entry that holds a handle which is disabled,
\* hidden or detached reports a miss and removes the entry, wherever that
\* handle sits in the list or dict.
C3_AnyDeadHandleEvictsEntry ==
    (/\ ReadFoundEntry
     /\ op.pre.elements.shape \in {"list", "dict"}
     /\ \E h \in HandlesOf(op.pre.elements) : ~Live(dom, h))
    => (op.result = Miss /\ op.key \notin DOMAIN cache.cache)

\* C4: a read that finds an entry whose stored fingerprint differs from the
\* one passed in reports a miss and removes the entry.
C4_FingerprintMismatchEvicts ==
    (ReadFoundEntry /\ op.hash # op.pre.context_hash)
    => (op.result = Miss /\ op.key \notin DOMAIN cache.cache)

\* C4 witness: such a read, with every stored handle still live
C4_Witness ==
    /\ ReadFoundEntry /\ op.hash # op.pre.context_hash
    /\ \A h \in HandlesOf(op.pre.elements) : Live(dom, h)
    /\ op.result = Miss

-----------------------------------------------------------------------------
(* Claims about reading and writing fields *)

IsGet == op.kind = "get"
IsSet == op.kind = "set"
CachingOn == field.enable_cache /\ pageCache
ContextAlive == instance = CompCtx => comp.attached
NothingAttached == \A h \in Handles : ~Attached(dom, h)
SingleClasses == {"PageElement", "PageElementTemplate"}
ListClasses == {"PageElements", "PageElementsTemplate"}

\* the read found an entry for its key, written under the root and the context
\* markup the read sees, and every handle in it is attached, enabled, displayed
WarmRead ==
    /\ IsGet /\ CachingOn /\ ContextAlive
    /\ op.pre # NoEntry
    /\ ~op.rootChanged
    /\ op.pre.context_hash = op.hash
    /\ \A h \in HandlesOf(op.pre.elements) : Live(dom, h)

StaleSingleRead ==
    /\ IsGet /\ op.cls = "PageElement" /\ CachingOn /\ ContextAlive
    /\ op.pre # NoEntry
    /\ op.pre.elements.shape = "one"
    /\ ~Attached(dom, op.pre.elements.hs[1])

\* C5: when the cache holds the handle of a Single field and the element is
\* then removed from the DOM, the next read of the field does not return the
\* handle: the entry is evicted, the element is resolved afresh exactly once,
\* nothing is raised, and if no element is left the read returns None and the
\* key has no entry.
C5_DetachedSingleIsEvictedAndReResolved ==
    StaleSingleRead =>
        /\ ~op.hit
        /\ op.finds = 1
        /\ op.exc = ""
        /\ EntryOf(cache, op.key) # op.pre
        /\ op.result # op.pre.elements
        /\ NothingAttached => (op.result = None /\ op.key \notin DOMAIN cache.cache)

C5_Witness ==
    /\ StaleSingleRead
    /\ NothingAttached
    /\ op.result = None
    /\ op.found = "NoSuchElementException"

\* the resolution of a read failed as a whole: the _find of the element(s)
\* raised, or the container of the dictionary (or its context) is not there
ResolutionFailed ==
    IF op.cls = "PageElementDict" THEN ~dictDom.container \/ ~ContextAlive
    ELSE ~op.hit /\ op.found # ""

TargetMissing ==
    IF op.cls = "PageElementDict" THEN ~dictDom.container ELSE NothingAttached

\* C7: a write to a Single, Multi, Templated or Dictionary field whose target
\* element (or container) does not exist raises the failure of the resolution
\* to the caller and never completes silently.
C7_WriteToMissingTargetRaises ==
    (IsSet /\ TargetMissing) => op.exc # ""

-----------------------------------------------------------------------------
(* Claims about the values written *)

Clicks(log) == Cardinality({j \in DOMAIN log : log[j].act = "click"})
Touched(log) == {log[j].h : j \in DOMAIN log}

\* the writers of one element: the descriptors and the two earlier rules
SingleWriters == SingleClasses \cup {"page_object.PageObject", "pageobj.PageElement"}

BooleanWrite(o) ==
    /\ o.kind = "set"
    /\ o.cls \in SingleWriters
    /\ o.exc = ""
    /\ o.value \in Booleans
    /\ Len(o.hs) = 1

\* the same boolean written twice in a row to the same checkbox
TwiceInARow ==
    /\ kind = "checkbox"
    /\ BooleanWrite(prev) /\ BooleanWrite(op)
    /\ prev.cls = op.cls /\ prev.key = op.key /\ prev.hs = op.hs
    /\ prev.value = op.value

\* C8 as stated: writing the same boolean value twice in a row to a checkbox
\* field results in exactly one click in total.
C8_TwoEqualWritesClickOnce ==
    TwiceInARow => Clicks(prev.log) + Clicks(op.log) = 1

\* C8, amended: of two writes in a row of the same boolean to a checkbox, the
\* second never clicks, and the first clicks once exactly when the checkbox
\* was not in the state written, and not at all when it already was.
C8_SecondEqualWriteNeverClicks ==
    TwiceInARow =>
        /\ Clicks(op.log) = 0
        /\ Clicks(prev.log) =
              (IF prev.was[prev.hs[1]].selected # prev.value.b THEN 1 ELSE 0)
        /\ dom[op.hs[1]].selected = op.value.b

C8_Witness ==
    /\ TwiceInARow
    /\ Clicks(prev.log) = 1
    /\ op.cls = "PageElement"

\* C9: writing false to a radio field never clicks, whatever the state of the
\* radio; writing true clicks exactly once when the radio is not selected.
C9_RadioFalseNeverClicks ==
    (kind = "radio" /\ BooleanWrite(op)) =>
        /\ ~op.value.b => (op.log = <<>> /\ dom = op.was)
        /\ (op.value.b /\ ~op.was[op.hs[1]].selected) =>
              (op.log = <<Click(op.hs[1])>> /\ dom[op.hs[1]].selected)

C9_Witness ==
    /\ kind = "radio" /\ BooleanWrite(op)
    /\ op.cls = "PageElement"
    /\ ~op.value.b
    /\ op.was[op.hs[1]].selected

\* a write of {i: v} to the list descriptor that resolved its elements
OneKeyWrite(o) ==
    /\ o.kind = "set"
    /\ o.cls = "PageElements"
    /\ o.value.t = "dict"
    /\ Len(o.value.kvs) = 1
    /\ o.value.kvs[1].k.int
    /\ o.value.kvs[1].k.n >= 0

KeyOf(o) == o.value.kvs[1].k.n

\* C10: writing {i: v} with 0 <= i < n to a Multi field of n elements writes
\* element i by the rule of a Single write and touches no other element;
\* writing {i: v} with i >= n raises nothing and touches no element.
C10_OneKeyWritesOneElement ==
    OneKeyWrite(op) =>
        IF KeyOf(op) < Len(op.hs)
        THEN /\ op.exc = ""
             /\ Touched(op.log) \subseteq {op.hs[KeyOf(op) + 1]}
             /\ \A h \in Handles \ {op.hs[KeyOf(op) + 1]} : dom[h] = op.was[h]
             /\ [dom |-> dom, log |-> op.log] =
                   set_element(kind, [dom |-> op.was, log |-> <<>>],
                               op.hs[KeyOf(op) + 1], op.value.kvs[1].v)
        ELSE op.exc = "" /\ op.log = <<>> /\ dom = op.was

C10_Witness ==
    /\ OneKeyWrite(prev) /\ OneKeyWrite(op)
    /\ Len(prev.hs) = NumElems /\ KeyOf(prev) = NumElems - 1
    /\ prev.log # <<>>
    /\ KeyOf(op) >= Len(op.hs)

\* a write to a list descriptor that resolved its elements (op.hs)
ListWrite(o) ==
    /\ o.kind = "set"
    /\ o.cls \in ListClasses
    /\ (o.hit \/ o.found = "")

\* the elements named by the keys that are integers 0 .. n-1
ValidTargets(o) ==
    {o.hs[o.value.kvs[j].k.n + 1] :
        j \in {i \in DOMAIN o.value.kvs :
                  /\ o.value.kvs[i].k.lit = "int"
                  /\ o.value.kvs[i].k.n >= 0
                  /\ o.value.kvs[i].k.n < Len(o.hs)}}

\* C11 as stated: in a map write to a Multi (or Templated-array) field every
\* key that is not an integer index within the range of the resolved elements
\* is dropped silently: nothing reaches the caller, no element is written for
\* such a key, and the elements of the valid keys are written.
C11_InvalidKeysDroppedSilently ==
    (ListWrite(op) /\ op.value.t = "dict") =>
        /\ op.exc = ""
        /\ Touched(op.log) \subseteq ValidTargets(op)
        /\ kind = "text" => Touched(op.log) = ValidTargets(op)

\* C12: writing to a Multi field a value that is neither a sequence, a map nor
\* a scalar raises ValueError to the caller, and no element has been written
\* when it is raised.
C12_UnsupportedValueRaises ==
    (ListWrite(op) /\ op.value.t = "NoneType") =>
        /\ op.exc = "ValueError"
        /\ op.log = <<>>
        /\ dom = op.was

C12_Witness ==
    /\ ListWrite(op) /\ op.value = NoneV
    /\ Len(op.hs) = NumElems
    /\ op.exc = "ValueError"

\* C13 as stated: writing a scalar (a string, an integer, a boolean for
\* checkboxes) to a Multi field with n resolved elements applies the Single
\* write rule with that value to each of the n elements.
C13_ScalarIsBroadcast ==
    (ListWrite(op) /\ op.value.t \in {"bool", "str", "int"}) =>
        /\ op.exc = ""
        /\ [dom |-> dom, log |-> op.log] =
              AssignAll(kind, [dom |-> op.was, log |-> <<>>],
                        [i \in DOMAIN op.hs |-> [h |-> op.hs[i], v |-> op.value]])

-----------------------------------------------------------------------------
(* Claims about the table *)

IsQuery(ver) == op.kind = "query" /\ op.ver = ver /\ op.exc = ""
IsQueryOf(vers) == op.kind = "query" /\ op.ver \in vers /\ op.exc = ""

\* the row satisfies every condition, by the comparison of the version
Matches(ver, conds, h) ==
    \A j \in DOMAIN conds : Holds(ver, conds, conds[j], table[h][conds[j].attr])

\* the rows of s that match, in the order of s
Matching_rows(ver, conds, s) ==
    LET m(h) == Matches(ver, conds, h) IN SelectSeq(s, m)

\* the first element of s, if any, as a sequence
First(s) == IF s = <<>> THEN <<>> ELSE <<s[1]>>

\* s lists rows in the order of the document
InDomOrder(s) == \A i, j \in DOMAIN s : i < j => s[i] < s[j]

\* C14: query(once=True) returns the first row, in DOM order, that satisfies
\* the conditions and reads no field of any row after it; query(once=False)
\* returns all the matching rows in DOM order.
C14_OnceStopsAtFirstMatch ==
    IsQueryOf(Versions) =>
        /\ InDomOrder(op.rows)
        /\ op.kept = (IF op.once
                      THEN First(Matching_rows(op.ver, op.conds, op.rows))
                      ELSE Matching_rows(op.ver, op.conds, op.rows))
        /\ (op.once /\ op.kept # <<>>) =>
              /\ op.result.rows = op.kept
              /\ \A e \in DOMAIN op.evals : op.evals[e][1] <= op.kept[1]
        /\ ~op.once => op.result = Rows(op.kept)

C14_Witness ==
    /\ IsQuery("pageobject") /\ op.once
    /\ Len(op.rows) = NumElems
    /\ op.result = Row(NumElems)
    /\ ~Matches("pageobject", op.conds, 1)
    /\ Matches("pageobject", op.conds, NumElems)
    /\ Len(op.conds) = 2

\* C15: when no row matches, query(once=False) returns an empty list and
\* query(once=True) returns None; query never returns an empty list when once
\* is true nor None when once is false.
C15_NoMatchIsNoneOrEmptyList ==
    IsQueryOf({"pageobject", "pageobj"}) =>
        /\ Matching_rows(op.ver, op.conds, op.rows) = <<>> =>
              op.result = (IF op.once THEN NoRow ELSE Rows(<<>>))
        /\ op.once => op.result # Rows(<<>>)
        /\ ~op.once => op.result # NoRow

C15_Witness ==
    /\ IsQuery("pageobject") /\ op.once
    /\ Len(op.rows) = NumElems
    /\ op.conds # <<>>
    /\ op.result = NoRow

\* a condition holds for a field value: a literal when the trimmed text of the
\* field equals it, a predicate when it is true of the value
ConditionHolds(c, x) ==
    IF c.callable THEN x \in c.accepts
    ELSE x # NoCell /\ x.s = c.ref.s /\ ~c.ref.pad

\* C16: a row matches a query iff every condition holds for the row's field of
\* the same name: a literal condition holds iff the trimmed text of the field
\* equals the literal, a predicate iff it is true of the field value; a query
\* with no condition matches every row.
C16_MatchIsConjunction ==
    (IsQuery("pageobject") /\ ~op.once) =>
        /\ \A i \in DOMAIN op.rows :
              (\E k \in DOMAIN op.kept : op.kept[k] = op.rows[i])
                 <=> \A j \in DOMAIN op.conds :
                        ConditionHolds(op.conds[j], table[op.rows[i]][op.conds[j].attr])
        /\ op.conds = <<>> => op.kept = op.rows

C16_Witness ==
    /\ IsQuery("pageobject") /\ ~op.once
    /\ Len(op.conds) = 2 /\ ~op.conds[1].callable
    /\ Len(op.rows) = NumElems
    /\ op.kept = <<NumElems>>
    /\ table[NumElems].status = PaidPadded
    /\ table[1].status = Paid

\* C17 as stated: apply(action, once=True) calls the action on the first
\* matching row and stops, so at most once; apply(action, once=False) calls it
\* once on each row query would return with the same conditions, in DOM order.
C17_ApplyOnceStopsAtFirstMatch ==
    (op.kind = "apply" /\ op.exc = "") =>
        op.kept = (IF op.once
                   THEN First(Matching_rows(op.ver, op.conds, op.rows))
                   ELSE Matching_rows(op.ver, op.conds, op.rows))


-----------------------------------------------------------------------------
(* Claims about dictionaries *)

IsDict == op.cls = "PageElementDict"

\* the items the dictionary shows a call: those of the container, when the
\* container and the context are there
Discovered == IF dictDom.container /\ ContextAlive THEN ItemsOf(dictDom) ELSE <<>>

\* the key element of item i is there
KeyResolves(i) == dictDom.keys[i]

\* the value locator of item i, waited for as the field is configured, yields
\* an element
ValueResolves(d, i) ==
    LET fd == find_value(field, d, dictDom, i) IN fd.exc = "" /\ fd.hs # <<>>

KeysOf(result) == {result.items[j].key : j \in DOMAIN result.items}

\* C18: a read of a Dictionary field never raises, and the keys of the mapping
\* it returns are exactly the keys of the items for which both a key and a
\* value resolved: every other item is dropped.
C18_UnresolvedItemsDropped ==
    (IsGet /\ IsDict) =>
        /\ op.exc = ""
        /\ KeysOf(op.result) =
              {i \in Range(Discovered) : KeyResolves(i) /\ ValueResolves(dom, i)}

\* the writes the mapping asks of the items left: for every item whose key is
\* in the mapping, the mapped value to its first value element
RECURSIVE MappedWrites(_, _, _)
MappedWrites(d, items, value) ==
    IF items = <<>> THEN <<>>
    ELSE LET i == Head(items)
             rest == MappedWrites(d, Tail(items), value)
         IN IF KeyResolves(i) /\ HasKey(value, i)
            THEN <<[h |-> ValuesOf(d, dictDom, i)[1], v |-> Lookup(value, i)]>> \o rest
            ELSE rest

\* every item the mapping names has a value element to write
MappedResolve(d, items, value) ==
    \A i \in Range(items) :
        (KeyResolves(i) /\ HasKey(value, i)) => ValueResolves(d, i)

\* C19: a write of a mapping to a Dictionary field, every item it names having
\* a value element, does not raise and is the Single write of the mapped value
\* to each discovered item whose key is in the mapping: keys of the mapping
\* that match no item are ignored, items whose key is not in it are not written.
C19_MappedItemsWritten ==
    (IsSet /\ IsDict /\ MappedResolve(op.was, Discovered, op.value)) =>
        /\ op.exc = ""
        /\ [dom |-> dom, log |-> op.log] =
              AssignAll(kind, [dom |-> op.was, log |-> <<>>],
                        MappedWrites(op.was, Discovered, op.value))


-----------------------------------------------------------------------------
(* Claims about the wait *)

\* a call of a Single or Templated field that looked its element up
FindOne == op.kind \in {"get", "set"} /\ op.cls \in SingleClasses /\ ~op.hit

\* the wait of the call ran and ended by its timeout: the context was stale,
\* or the first element the locator matched was not displayed, or none matched
WaitTimedOut ==
    LET m == Matching(op.was, field.loc) IN
    /\ field.timeout # 0
    /\ ~(ContextAlive /\ m # <<>> /\ Displayed(op.was, m[1]))

FindMany == op.kind \in {"get", "set"} /\ op.cls \in ListClasses /\ ~op.hit

\* the locator matched nothing in a context that is there
NoMatch == ContextAlive /\ Matching(op.was, field.loc) = <<>>

\* C21: a lookup of many elements that matches nothing does not fail when the
\* timeout is 0, and gives the empty sequence; with a timeout and without
\* ignore_visibility it fails with TimeoutException.
C21_NoMatchIsEmptyOrTimeout ==
    (FindMany /\ NoMatch) =>
        /\ field.timeout = 0 =>
              /\ op.found = "" /\ op.fetches = 1
              /\ IsGet => op.result = List(<<>>)
              /\ IsSet => op.hs = <<>>
        /\ (field.timeout # 0 /\ ~field.ignore_visibility) =>
              op.found = "TimeoutException"

C21_Witness ==
    /\ FindMany /\ NoMatch /\ IsGet
    /\ field.timeout = 0
    /\ op.result = List(<<>>)


-----------------------------------------------------------------------------
(* Claims about pages as classes *)

\* the first member of s that is not empty
FirstNonEmpty(s) ==
    s[CHOOSE i \in DOMAIN s : s[i] # NoBy /\ \A j \in 1..(i - 1) : s[j] = NoBy]

\* the strategies a locator is resolved from, first to last
Chain(which) ==
    LET own == IF which = "item_loc" THEN <<decl.item_by>>
               ELSE IF which = "key_loc" THEN <<decl.key_by>>
               ELSE IF which = "value_loc" THEN <<decl.value_by>>
               ELSE <<>>
    IN own \o <<decl.given_by, decl.default_by, ById>>

\* C22: the strategy of a field read at access time is the first non-empty of
\* the strategy the field was given, the default pageconfig installed on its
\* container, and id; for the item, key and value locators of a Dictionary
\* their own strategy comes before this chain.  It is never empty.
C22_StrategyIsFirstNonEmpty ==
    op.kind = "locate" =>
        /\ op.by = FirstNonEmpty(Chain(op.which))
        /\ op.by # NoBy

C22_Witness ==
    /\ op.kind = "locate" /\ op.which = "key_loc"
    /\ decl.key_by = NoBy /\ decl.given_by = NoBy
    /\ decl.default_by # NoBy
    /\ op.by = decl.default_by


IsWait == op.kind = "wait"

\* the timeout the documentation of wait.py gives a wait invoked on x: the one
\* passed, else the one of x, else the one of the page, else 0
TimeoutOf(x, passed) ==
    IF passed # 0 THEN passed
    ELSE IF decl.timeout[x] # 0 THEN decl.timeout[x]
    ELSE decl.timeout["page"]

\* C23: every wait (wait and each wait_*_after) invoked on a page or component
\* waits for the timeout passed if it is not 0, else the timeout of that
\* component if it is not 0, else the timeout of the page, else 0; a parent
\* component in between is never consulted.
C23_TimeoutOfAWait ==
    IsWait => op.used = TimeoutOf(op.on, op.timeout)


\* C24: wait() and the exit of every wait_*_after block end a TimeoutException
\* silently iff ignore_timeout is set; a TimeoutException without
\* ignore_timeout, and any other exception with or without it, reaches the
\* caller.
C24_OnlyTimeoutIsSuppressed ==
    IsWait =>
        /\ op.exc = "" <=>
              \/ op.raised = ""
              \/ op.raised = "TimeoutException" /\ op.ignore_timeout
        /\ op.exc # "" => op.exc = op.raised

C24_Witness ==
    /\ IsWait /\ op.what = "wait_element_changed_after"
    /\ op.raised = "TimeoutException" /\ op.ignore_timeout
    /\ op.exc = ""


IsNextPage == op.kind = "nextpage"

HasToken(kvs, token) == \E j \in DOMAIN kvs : kvs[j].k = token
ValueAt(kvs, token) == kvs[CHOOSE j \in DOMAIN kvs : kvs[j].k = token].v

\* the class path nextpage(name) is said to choose for a token
Chosen(name, token) ==
    IF name.type = "str" THEN name.path
    ELSE IF name.type = "dict"
    THEN IF HasToken(name.kvs, token) THEN ValueAt(name.kvs, token)
         ELSE IF HasToken(name.kvs, StrV("__default__"))
         THEN ValueAt(name.kvs, StrV("__default__"))
         ELSE NoneV
    ELSE IF HasToken(name.kvs, token) THEN ValueAt(name.kvs, token) ELSE NoneV

-----------------------------------------------------------------------------
(* Claims about what a read returns *)

IsRead == op.kind = "get" /\ decl \in Readings

\* a read of a value-only field, no component and no hook, one element matched
ValueOnlyRead ==
    /\ IsRead /\ op.matched = 1
    /\ decl.value_only /\ ~decl.component /\ ~decl.read_hook

\* C26: a value-only Single field that matches exactly one element reads as
\* the text of the first selected option of a select (one being selected),
\* the selected state of a checkbox or radio input, the value of a text,
\* number or url input and of a textarea, and the trimmed text content of
\* anything else; a second read with no change of the DOM in between returns
\* what the first returned.
C26_ValueOnlyReadsByKind ==
    ValueOnlyRead =>
        LET h == op.hs[1]
            v == op.result.v
        IN  /\ (kind.tag = "select" /\ content.option # NoOption) =>
                  v = Val("str", FALSE, content.option)
            /\ (kind.tag = "input" /\ kind.type \in {"checkbox", "radio"}) =>
                  v = Val("bool", dom[h].selected, Text("", FALSE))
            /\ (kind.tag = "input" /\ kind.type \in {"text", "number", "url"}) =>
                  v = Val("str", FALSE, content.value)
            /\ kind.tag = "textarea" => v = Val("str", FALSE, content.value)
            /\ (kind.tag = "div" \/ kind.type = "password") =>
                  v = Val("str", FALSE, [s |-> content.text.s, pad |-> FALSE])
            /\ prev.kind = "get" => prev.result = op.result

C26_Witness ==
    /\ ValueOnlyRead /\ prev.kind = "get"
    /\ kind.type = "password"
    /\ content.text.pad
    /\ op.result.v = Val("str", FALSE, Text("a", FALSE))

\* what reading a Single field is said to return for element h
Expected(h) ==
    LET base == IF decl.component THEN Result("component", h, NoVal)
                ELSE IF decl.value_only
                THEN Result("value", 0, get_element(kind, content, dom, h).v)
                ELSE Result("WebElement", h, NoVal)
    IN [base EXCEPT !.hooks = IF decl.read_hook THEN 1 ELSE 0]

\* C27: a read of a Single field returns the component cast of the element
\* when a component is configured, else the value of the element when
\* value_only is set, else the element itself; a read_hook, when configured,
\* is applied exactly once, last, to whichever was produced.
C27_ReadResultByConfiguration ==
    (IsRead /\ op.raised = "") => op.result = Expected(op.hs[1])


-----------------------------------------------------------------------------
(* Claims about templated fields *)

IsCall == op.kind = "call"

\* the parameters the placeholders of the template take
Used(p) == SubSeq(p, 1, Min(Len(p), field.loc.holes))

\* what a resolution of locator loc finds now
Fresh(loc) ==
    IF ElementsAt(dom, loc) = <<>> THEN None ELSE One(ElementsAt(dom, loc)[1])

-----------------------------------------------------------------------------
(* Claims about writes and the cache *)

\* C29: a write to a Single field that has no write_hook resolves its target
\* from the driver every time, also when the cache holds a valid entry for
\* the (context, locator) of the field.
C29_SingleWriteAlwaysResolves ==
    (IsSet /\ op.cls \in SingleClasses) => (~op.hit /\ op.finds = 1)

-----------------------------------------------------------------------------
(* Claims about the rows of a table *)

\* the rows the page cache holds for the table
HeldRows == EntryOf(cache, RowKey).elements

\* C30 as stated: every query asks the driver for the rows, once; the rows of
\* an earlier query are never handed to a later one.
C30_EveryQueryFetchesRows ==
    IsQueryOf(Versions) => op.fetches = 1

\* C30: a query asks the driver for the rows at most once. It asks exactly once
\* in the two earlier tables and on a page without a cache; on a page with a
\* cache it asks once or not at all, and when it does not ask, the rows it
\* works on are the non-empty list the cache holds, every one of them still
\* attached to the document. After a query on a page with a cache, the cache
\* holds the rows the query worked on.
C30_RowsFetchedAtMostOnce ==
    IsQueryOf(Versions) =>
        /\ op.fetches \in {0, 1}
        /\ (op.ver # "pageobject" \/ ~pageCache) => op.fetches = 1
        /\ op.fetches = 0 =>
               /\ op.rows # <<>>
               /\ \A i \in DOMAIN op.rows : Attached(dom, op.rows[i])
        /\ (op.ver = "pageobject" /\ pageCache) => HeldRows = List(op.rows)

\* a query of the cached table that did not ask the driver for the rows
C30_Witness ==
    /\ IsQuery("pageobject")
    /\ pageCache
    /\ op.fetches = 0
    /\ Len(op.rows) = NumElems

-----------------------------------------------------------------------------
(* Claims about the driver calls of a lookup *)

IsFind == op.kind = "find"

\* how many times call c occurs in s
Count(s, c) == Cardinality({i \in DOMAIN s : s[i] = c})

\* C31 as stated: every lookup, of one element or of many, makes exactly one
\* direct fetch; with a timeout the fetch comes after the wait, with timeout 0
\* there is no wait and the fetch is the only call.
C31_EveryLookupFetchesOnce ==
    IsFind =>
        /\ Count(op.calls, "find") = 1
        /\ field.timeout # 0 => op.calls = <<"until", "find">>
        /\ field.timeout = 0 => op.calls = <<"find">>

\* C31: a lookup makes at most one direct fetch and never fetches before the
\* wait. With timeout 0 it makes no wait and one fetch. With a timeout it
\* waits once, first; it then fetches once, unless the lookup ended with
\* TimeoutException, which it does only on a field without ignore_visibility,
\* and then it makes no fetch at all.
C31_FetchOnceAfterTheWait ==
    IsFind =>
        /\ field.timeout = 0 => op.calls = <<"find">>
        /\ field.timeout # 0 =>
              IF op.exc = "TimeoutException"
              THEN op.calls = <<"until">> /\ ~field.ignore_visibility
              ELSE op.calls = <<"until", "find">>

\* a lookup of many whose wait timed out and was ignored, and that fetched
C31_Witness ==
    /\ IsFind /\ op.many
    /\ field.timeout # 0 /\ field.ignore_visibility
    /\ ~Displayed(op.was, 1) /\ Attached(op.was, 1)
    /\ op.calls = <<"until", "find">>
    /\ op.exc = ""

-----------------------------------------------------------------------------
(* Claims about the with blocks *)

BlockEnded == inflight # NoCall /\ inflight.at = "done"

\* C32: a wait_page_loaded_after block without ignore_timeout ends normally
\* only when its waits have seen, in this order, a root other than the one
\* kept on entry and then a complete document; otherwise it ends with
\* TimeoutException, having seen neither or only the first.
C32_NormalExitAfterRootThenReady ==
    (BlockEnded /\ ~inflight.ignore_timeout) =>
        IF inflight.exc = ""
        THEN inflight.log = <<"changed", "complete">>
        ELSE /\ inflight.exc = "TimeoutException"
             /\ inflight.log \in {<<>>, <<"changed">>}

\* a block of the page that ended normally at the last evaluation its second
\* wait had time for
C32_Witness ==
    /\ BlockEnded /\ ~inflight.ignore_timeout
    /\ inflight.ver = "pageobject"
    /\ inflight.exc = ""
    /\ inflight.old # htmlId
    /\ inflight.left = 0 /\ BlockTimeout(inflight) > 0

-----------------------------------------------------------------------------
(* Claims about the conditions of TableBase.search *)

\* a search with two or more conditions, every one a literal
LiteralSearch ==
    /\ IsQuery("page_object")
    /\ Len(op.conds) >= 2
    /\ \A j \in DOMAIN op.conds : ~op.conds[j].callable

\* the field named by every condition equals the literal of that condition
OwnLiterals(conds, h) ==
    \A j \in DOMAIN conds :
        /\ table[h][conds[j].attr] # NoCell
        /\ Strip(table[h][conds[j].attr]) = conds[j].ref

\* C33: TableBase.search with two or more literal conditions yields a row
\* exactly when, for every condition, the field of the row named by the
\* condition equals the literal given for that name.
C33_EachLiteralComparesItsOwnField ==
    LiteralSearch =>
        LET own(h) == OwnLiterals(op.conds, h)
            rows == SelectSeq(op.rows, own)
        IN  op.kept = (IF op.once THEN First(rows) ELSE rows)

-----------------------------------------------------------------------------
(* Claims about descriptors that share a locator *)

\* the shape a descriptor of class cls stores and expects
ShapeOf(cls) == IF cls \in SingleClasses THEN "one" ELSE "list"

\* C34: the cache entry handed to a field has the shape of the kind of the
\* field, one handle for a Single field and a list for a Multi field; a field
\* is never handed what a field of the other kind stored under the same
\* context and locator.
C34_EntryHasTheShapeOfTheField ==
    (IsGet /\ op.hit) => op.pre.elements.shape = ShapeOf(op.cls)

-----------------------------------------------------------------------------
(* Claims about a navigation in the middle of a read *)

\* the read has written what it found to the cache
Stored == inflight.at = "stored" /\ <<instance, field.loc>> \in DOMAIN cache.cache

\* C35: when a read has written to the cache, the entry holds a handle that
\* was resolved under the root the cache records, also when the browser moved
\* to another root between the lookup and the write.
C35_EntryResolvedUnderRecordedRoot ==
    Stored => inflight.root = cache.current_page_id

-----------------------------------------------------------------------------
(* Claims about a rewrite of the DOM in place *)

\* the DOM was rewritten since the last call of the field, to a markup other
\* than the one that call met, under an entry of the field whose handles are
\* all still attached, enabled and displayed
RewrittenUnderLiveEntry ==
    /\ op.kind = "rewrite"
    /\ comp.hash # op.from
    /\ htmlId = cache.current_page_id
    /\ <<instance, field.loc>> \in DOMAIN cache.cache
    /\ \A h \in HandlesOf(cache.cache[<<instance, field.loc>>].elements) : Live(dom, h)

\* C36: the read that follows a rewrite of the DOM in place misses the cache,
\* for a field of the page as for a field of a component, although the handle
\* in the entry is still attached, enabled and displayed.
C36_RewriteIsAMiss ==
    [][(RewrittenUnderLiveEntry /\ op'.kind = "get") => ~op'.hit]_vars

-----------------------------------------------------------------------------
(* Claims about a dictionary declared with enable_cache                      *)

DictRead == op.kind = "get" /\ op.cls = "PageElementDict"

\* C37: a dictionary declared with enable_cache=True on a page with
\* enable_cache stores what it resolved when a read misses, so that the read
\* that follows it with nothing changed in between is served from that entry:
\* after every read the cache holds the map the read returned
C37_DictReadLeavesItsEntry ==
    (DictRead /\ ContextAlive)
        => /\ <<instance, field.loc>> \in DOMAIN cache.cache
           /\ cache.cache[<<instance, field.loc>>].elements = op.result

-----------------------------------------------------------------------------
(* Claims about the construction of a page                                   *)

NoEnableCacheAnywhere ==
    /\ DOMAIN decl = {"enable_cache", "driver_enable_cache"}
    /\ decl.enable_cache = Undefined
    /\ decl.driver_enable_cache = Undefined

\* C38: when neither the page class nor the driver defines enable_cache, the
\* construction of the page returns, with no exception, a page whose cache is
\* None, and every read of a field with enable_cache on it resolves through
\* the driver without an error
C38_ConstructionWithoutEnableCacheSucceeds ==
    (NoEnableCacheAnywhere /\ inflight # NoCall)
        => /\ inflight.exc = ""
           /\ cache = NoCache
           /\ op.kind = "get" => (~op.hit /\ op.exc = "")

====
